---- MODULE Spec2Model ----
(***************************************************************************)
(* Lecture-video processing pipeline: the record store (videos and         *)
(* transcript chunks), the per-video vector collections, and the           *)
(* background task process_video_pipeline = process_video followed by      *)
(* process_video_embeddings, one action per awaited step.                  *)
(***************************************************************************)
EXTENDS Integers, Sequences, FiniteSets, TLC

VARIABLES videos, video_metadata, transcript_chunks, collections, task, nruns,
          chat, chunker

vars == <<videos, video_metadata, transcript_chunks, collections, task, nruns,
          chat, chunker>>

(* ------------------------------ bounds -------------------------------- *)

\* pipeline or indexer runs started in one behaviour
MaxRuns == 2
\* background task slots
MaxTasks == 1
\* segments of the long transcript: one chunk each, three embedding batches
LongSegments == 101

Videos == {"v1"}
Tasks == 1..MaxTasks

(* ----------------------------- constants ------------------------------ *)

\* Optional[...] values: None, or the value wrapped
None == <<>>
Some(x) == <<x>>

UPLOADING == "uploading"
PROCESSING == "processing"
TRANSCRIBING == "transcribing"
CHUNKING == "chunking"
EMBEDDING == "embedding"
COMPLETED == "completed"
FAILED == "failed"

ProcessingStatus ==
    {UPLOADING, PROCESSING, TRANSCRIBING, CHUNKING, EMBEDDING, COMPLETED, FAILED}

\* create_embeddings: batch_size
batch_size == 50
\* create_transcript_chunks, hybrid strategy
hybrid_chunk_duration == 120
hybrid_split_threshold == 200
hybrid_max_words == 150
\* create_transcript_chunks, strategies "time" and "content"
time_chunk_duration == 90
content_max_words == 150

(* ------------------------------ helpers ------------------------------- *)

Min(a, b) == IF a < b THEN a ELSE b

Range(s) == {s[i] : i \in 1..Len(s)}

\* a word of transcript text: its letters and the sentence terminators
\* ('.', '!', '?') that close it
Word(s) == [s |-> s, p |-> ""]
WordP(s, p) == [s |-> s, p |-> p]

(* ----------------------------- Segmenter ------------------------------ *)

EmptyChunk == [text |-> <<>>, start |-> None, end |-> None]

\* a loop body that closes the current chunk whether or not it has text
TimeStep_NoTextGuard(state, segment, chunk_duration) ==
    LET current_chunk == state.current_chunk
        start == IF current_chunk.start = None
                 THEN Some(segment.start) ELSE current_chunk.start
    IN  IF (segment.end - start[1]) > chunk_duration
        THEN [chunks |-> Append(state.chunks, [current_chunk EXCEPT !.start = start]),
              current_chunk |-> [text |-> segment.text,
                                 start |-> Some(segment.start),
                                 end |-> Some(segment.end)]]
        ELSE [chunks |-> state.chunks,
              current_chunk |-> [text |-> current_chunk.text \o segment.text,
                                 start |-> start,
                                 end |-> Some(segment.end)]]

\* the body of the loop "for segment in segments" of _chunk_transcript_by_time
TimeStep(state, segment, chunk_duration) ==
    LET current_chunk == state.current_chunk
        start == IF current_chunk.start = None
                 THEN Some(segment.start) ELSE current_chunk.start
    IN  IF (segment.end - start[1]) > chunk_duration /\ current_chunk.text # <<>>
        THEN [chunks |-> Append(state.chunks, [current_chunk EXCEPT !.start = start]),
              current_chunk |-> [text |-> segment.text,
                                 start |-> Some(segment.start),
                                 end |-> Some(segment.end)]]
        ELSE [chunks |-> state.chunks,
              current_chunk |-> [text |-> current_chunk.text \o segment.text,
                                 start |-> start,
                                 end |-> Some(segment.end)]]

\* the loop over segments[lo..hi], in order (evaluated by halves, the left
\* half first)
RECURSIVE TimeLoop(_, _, _, _, _)
TimeLoop(segments, lo, hi, state, chunk_duration) ==
    IF lo > hi THEN state
    ELSE IF lo = hi THEN TimeStep(state, segments[lo], chunk_duration)
    ELSE LET mid == (lo + hi) \div 2
             left == TimeLoop(segments, lo, mid, state, chunk_duration)
         IN  IF Len(left.chunks) < 0 THEN left
             ELSE TimeLoop(segments, mid + 1, hi, left, chunk_duration)

\* a chunker whose last chunk is timed from the start of the lecture
chunk_transcript_by_time_FromStart(segments, chunk_duration) ==
    LET final == TimeLoop(segments, 1, Len(segments),
                          [chunks |-> <<>>, current_chunk |-> EmptyChunk],
                          chunk_duration)
    IN  IF final.current_chunk.text # <<>>
        THEN Append(final.chunks,
                    [final.current_chunk EXCEPT !.start = Some(segments[1].start)])
        ELSE final.chunks

\* VideoProcessor._chunk_transcript_by_time
chunk_transcript_by_time(segments, chunk_duration) ==
    LET final == TimeLoop(segments, 1, Len(segments),
                          [chunks |-> <<>>, current_chunk |-> EmptyChunk],
                          chunk_duration)
    IN  IF final.current_chunk.text # <<>>
        THEN Append(final.chunks, final.current_chunk)
        ELSE final.chunks

\* index of the last word of text closed by a sentence terminator, 0 if none
LastTerminator(text) ==
    LET ks == {k \in 1..Len(text) : text[k].p # ""}
    IN  IF ks = {} THEN 0 ELSE CHOOSE k \in ks : \A j \in ks : j <= k

\* '. '.join(sentences[:-1]) + '.': every run of terminators becomes one '.'
CompleteText(text) ==
    LET k == LastTerminator(text)
    IN  [j \in 1..k |-> IF text[j].p = "" THEN text[j] ELSE WordP(text[j].s, ".")]

\* a remainder that loses the first word after the terminator
RemainingText_Clipped(text) == SubSeq(text, LastTerminator(text) + 2, Len(text))

\* sentences[-1].strip()
RemainingText(text) == SubSeq(text, LastTerminator(text) + 1, Len(text))

\* a loop body that starts the next chunk from the triggering segment alone
ContentStep_DropsRemainder(state, segment, max_words) ==
    LET current_chunk == state.current_chunk
        segment_words == Len(segment.text)
        start == IF current_chunk.start = None
                 THEN Some(segment.start) ELSE current_chunk.start
        split == LastTerminator(current_chunk.text) > 0
        closed == [text |-> IF split THEN CompleteText(current_chunk.text)
                            ELSE current_chunk.text,
                   start |-> start,
                   end |-> current_chunk.end]
    IN  IF (current_chunk.word_count + segment_words) > max_words
           /\ current_chunk.text # <<>>
        THEN [chunks |-> Append(state.chunks, closed),
              current_chunk |-> [text |-> segment.text,
                                 start |-> Some(segment.start),
                                 end |-> Some(segment.end),
                                 word_count |-> segment_words]]
        ELSE [chunks |-> state.chunks,
              current_chunk |-> [text |-> current_chunk.text \o segment.text,
                                 start |-> start,
                                 end |-> Some(segment.end),
                                 word_count |-> current_chunk.word_count + segment_words]]

\* the body of the loop "for segment in segments" of _chunk_transcript_by_content
ContentStep(state, segment, max_words) ==
    LET current_chunk == state.current_chunk
        segment_words == Len(segment.text)
        start == IF current_chunk.start = None
                 THEN Some(segment.start) ELSE current_chunk.start
        split == LastTerminator(current_chunk.text) > 0
        closed == [text |-> IF split THEN CompleteText(current_chunk.text)
                            ELSE current_chunk.text,
                   start |-> start,
                   end |-> current_chunk.end]
        remaining_text == IF split THEN RemainingText(current_chunk.text) ELSE <<>>
    IN  IF (current_chunk.word_count + segment_words) > max_words
           /\ current_chunk.text # <<>>
        THEN [chunks |-> Append(state.chunks, closed),
              current_chunk |-> [text |-> remaining_text \o segment.text,
                                 start |-> Some(segment.start),
                                 end |-> Some(segment.end),
                                 word_count |-> Len(remaining_text \o segment.text)]]
        ELSE [chunks |-> state.chunks,
              current_chunk |-> [text |-> current_chunk.text \o segment.text,
                                 start |-> start,
                                 end |-> Some(segment.end),
                                 word_count |-> current_chunk.word_count + segment_words]]

\* the loop over segments[lo..hi], in order (evaluated by halves, the left
\* half first)
RECURSIVE ContentLoop(_, _, _, _, _)
ContentLoop(segments, lo, hi, state, max_words) ==
    IF lo > hi THEN state
    ELSE IF lo = hi THEN ContentStep(state, segments[lo], max_words)
    ELSE LET mid == (lo + hi) \div 2
             left == ContentLoop(segments, lo, mid, state, max_words)
         IN  IF Len(left.chunks) < 0 THEN left
             ELSE ContentLoop(segments, mid + 1, hi, left, max_words)

\* VideoProcessor._chunk_transcript_by_content
chunk_transcript_by_content(segments, max_words) ==
    LET final == ContentLoop(segments, 1, Len(segments),
                             [chunks |-> <<>>,
                              current_chunk |-> [text |-> <<>>, start |-> None,
                                                 end |-> None, word_count |-> 0]],
                             max_words)
        last == final.current_chunk
    IN  IF last.text # <<>>
        THEN Append(final.chunks,
                    [text |-> last.text, start |-> last.start, end |-> last.end])
        ELSE final.chunks

\* the hybrid strategy's loop over time_chunks[lo..hi]: a chunk of more than
\* 200 words goes through content chunking as one mini-segment
RECURSIVE HybridRefine(_, _, _)
HybridRefine(time_chunks, lo, hi) ==
    IF lo > hi THEN <<>>
    ELSE IF lo = hi
    THEN LET chunk == time_chunks[lo]
             mini_segments == <<[text |-> chunk.text,
                                 start |-> chunk.start[1],
                                 end |-> chunk.end[1]]>>
         IN  IF Len(chunk.text) > hybrid_split_threshold
             THEN chunk_transcript_by_content(mini_segments, hybrid_max_words)
             ELSE <<chunk>>
    ELSE LET mid == (lo + hi) \div 2
         IN  HybridRefine(time_chunks, lo, mid) \o HybridRefine(time_chunks, mid + 1, hi)

\* create_transcript_chunks, strategy "hybrid": the raw chunks
hybrid_raw_chunks(segments) ==
    LET time_chunks == chunk_transcript_by_time(segments, hybrid_chunk_duration)
    IN  HybridRefine(time_chunks, 1, Len(time_chunks))

\* a conversion that numbers the chunks from 1
RECURSIVE ToTranscriptChunks_OneBased(_, _, _, _, _)
ToTranscriptChunks_OneBased(raw_chunks, lo, hi, video_id, run) ==
    IF lo > hi THEN <<>>
    ELSE IF lo = hi
    THEN LET chunk == raw_chunks[lo]
         IN  IF chunk.text = <<>> THEN <<>>
             ELSE <<[id |-> <<run, lo - 1>>,
                     video_id |-> video_id,
                     text |-> chunk.text,
                     start_time |-> chunk.start[1],
                     end_time |-> chunk.end[1],
                     chunk_index |-> lo,
                     word_count |-> Len(chunk.text)]>>
    ELSE LET mid == (lo + hi) \div 2
         IN  ToTranscriptChunks_OneBased(raw_chunks, lo, mid, video_id, run)
                 \o ToTranscriptChunks_OneBased(raw_chunks, mid + 1, hi, video_id, run)

\* the loop "for i, chunk in enumerate(raw_chunks)" over raw_chunks[lo..hi]:
\* a chunk whose cleaned text is empty is skipped
RECURSIVE ToTranscriptChunks(_, _, _, _, _)
ToTranscriptChunks(raw_chunks, lo, hi, video_id, run) ==
    IF lo > hi THEN <<>>
    ELSE IF lo = hi
    THEN LET chunk == raw_chunks[lo]
         IN  IF chunk.text = <<>> THEN <<>>
             ELSE <<[id |-> <<run, lo - 1>>,
                     video_id |-> video_id,
                     text |-> chunk.text,
                     start_time |-> chunk.start[1],
                     end_time |-> chunk.end[1],
                     chunk_index |-> lo - 1,
                     word_count |-> Len(chunk.text)]>>
    ELSE LET mid == (lo + hi) \div 2
         IN  ToTranscriptChunks(raw_chunks, lo, mid, video_id, run)
                 \o ToTranscriptChunks(raw_chunks, mid + 1, hi, video_id, run)

\* VideoProcessor.create_transcript_chunks (default strategy); the ids are
\* fresh uuid4 values, here the run that made the chunk and its position
create_transcript_chunks(video_id, transcription_result, run) ==
    IF transcription_result.segments = <<>> THEN <<>>
    ELSE LET raw_chunks == hybrid_raw_chunks(transcription_result.segments)
         IN  ToTranscriptChunks(raw_chunks, 1, Len(raw_chunks), video_id, run)

\* the branch "Choose chunking strategy" of create_transcript_chunks
raw_chunks_of(strategy, segments) ==
    IF strategy = "time" THEN chunk_transcript_by_time(segments, time_chunk_duration)
    ELSE IF strategy = "content"
    THEN chunk_transcript_by_content(segments, content_max_words)
    ELSE hybrid_raw_chunks(segments)

\* a segmenter that goes on counting where its previous call stopped
create_transcript_chunks_by_Counting(video_id, transcription_result, strategy, run) ==
    IF transcription_result.segments = <<>> THEN <<>>
    ELSE LET raw_chunks == raw_chunks_of(strategy, transcription_result.segments)
             chunks == ToTranscriptChunks(raw_chunks, 1, Len(raw_chunks), video_id, run)
         IN  [j \in 1..Len(chunks) |->
                 [chunks[j] EXCEPT !.chunk_index = @ + (run - 1) * Len(chunks)]]

\* VideoProcessor.create_transcript_chunks with the strategy given
create_transcript_chunks_by(video_id, transcription_result, strategy, run) ==
    IF transcription_result.segments = <<>> THEN <<>>
    ELSE LET raw_chunks == raw_chunks_of(strategy, transcription_result.segments)
         IN  ToTranscriptChunks(raw_chunks, 1, Len(raw_chunks), video_id, run)

(* ------------------------- external inputs ---------------------------- *)

\* results the transcription engine can return: no speech, a short lecture
\* (one chunk under the 120 s window), a long lecture (one chunk per segment)
NoSpeech == <<>>

ShortLecture ==
    <<[start |-> 0, end |-> 30,
       text |-> <<Word("Intro"), Word("to"), WordP("sets", ".")>>],
      [start |-> 30, end |-> 65,
       text |-> <<Word("Sets"), Word("contain"), WordP("elements", ".")>>]>>

LongLecture ==
    [i \in 1..LongSegments |->
        [start |-> (i - 1) * 100, end |-> i * 100, text |-> <<Word("topic")>>]]

Transcripts == {NoSpeech, ShortLecture, LongLecture}

\* whisper's transcribe: a result dict, or None when transcribe_audio caught
\* an engine error
TranscriptionResults == {None} \cup {Some([segments |-> s]) : s \in Transcripts}

\* rows that tie on the ORDER BY key come back in either insertion order
TieOrders == {"oldest_first", "newest_first"}

(* ---------------------------- record store ---------------------------- *)

\* VideoMetadata as upload_video constructs it
NewVideoMetadata ==
    [processing_status |-> UPLOADING,
     audio_path |-> None,
     transcript_path |-> None,
     total_chunks |-> None,
     processing_error |-> None]

\* no row in the videos table
NoRow == [processing_status |-> "absent",
          audio_path |-> None,
          transcript_path |-> None,
          total_chunks |-> None,
          processing_error |-> None]

\* DatabaseService.save_video_metadata: INSERT OR REPLACE of the whole row.
\* No connection sets PRAGMA foreign_keys, so the ON DELETE CASCADE of
\* transcript_chunks is not in force and the chunk rows stay as they are.
save_video_metadata(rows, video_id, metadata) ==
    [rows EXCEPT ![video_id] = metadata]

\* an UPDATE that sets the error only when one is given
update_processing_status_KeepsError(rows, video_id, status, error) ==
    IF rows[video_id] = NoRow THEN rows
    ELSE [rows EXCEPT ![video_id].processing_status = status,
                      ![video_id].processing_error =
                          IF error = None THEN @ ELSE error]

\* DatabaseService.update_processing_status: UPDATE ... WHERE id = ?
update_processing_status(rows, video_id, status, error) ==
    IF rows[video_id] = NoRow THEN rows
    ELSE [rows EXCEPT ![video_id].processing_status = status,
                      ![video_id].processing_error = error]

\* a save that clears the table before it inserts
save_transcript_chunks_ClearsTable(rows, chunks) == Range(chunks)

\* DatabaseService.save_transcript_chunks: INSERT OR REPLACE keyed by id
save_transcript_chunks(rows, chunks) ==
    {r \in rows : \A c \in Range(chunks) : c.id # r.id} \cup Range(chunks)

\* rows that tie on chunk_index, in insertion order or its reverse (the
\* insertion order of a row is the run that made it)
RECURSIVE TiedRows(_, _)
TiedRows(rows, order) ==
    IF rows = {} THEN <<>>
    ELSE LET first == CHOOSE r \in rows : \A q \in rows :
                          IF order = "oldest_first"
                          THEN r.id[1] <= q.id[1] ELSE r.id[1] >= q.id[1]
         IN  <<first>> \o TiedRows(rows \ {first}, order)

\* the rows with chunk_index in lo..hi, by chunk_index
RECURSIVE OrderByChunkIndex(_, _, _, _)
OrderByChunkIndex(rows, lo, hi, order) ==
    IF lo > hi THEN <<>>
    ELSE IF lo = hi THEN TiedRows({r \in rows : r.chunk_index = lo}, order)
    ELSE LET mid == (lo + hi) \div 2
         IN  OrderByChunkIndex(rows, lo, mid, order)
                 \o OrderByChunkIndex(rows, mid + 1, hi, order)

\* DatabaseService.get_transcript_chunks:
\* SELECT * FROM transcript_chunks WHERE video_id = ? ORDER BY chunk_index
get_transcript_chunks(rows, video_id, order) ==
    LET mine == {r \in rows : r.video_id = video_id}
        last == IF mine = {} THEN 0 - 1
                ELSE CHOOSE n \in {r.chunk_index : r \in mine} :
                         \A r \in mine : r.chunk_index <= n
    IN  OrderByChunkIndex(mine, 0, last, order)

(* ----------------------------- vector index --------------------------- *)

NoCollection == [exists |-> FALSE, items |-> {}]

\* RAGService._format_timestamp: H:MM:SS, or M:SS under one hour
format_timestamp(seconds) ==
    LET hours == seconds \div 3600
        minutes == (seconds % 3600) \div 60
        secs == seconds % 60
    IN  IF hours > 0 THEN <<hours, minutes, secs>> ELSE <<minutes, secs>>

\* one entry of collection.add for a chunk
VectorOf(chunk) ==
    [id |-> chunk.id,
     document |-> chunk.text,
     metadata |-> [video_id |-> chunk.video_id,
                   start_time |-> chunk.start_time,
                   end_time |-> chunk.end_time,
                   chunk_index |-> chunk.chunk_index,
                   word_count |-> chunk.word_count,
                   formatted_timestamp |-> format_timestamp(chunk.start_time)]]

\* batches that stop one chunk short of the next batch
Batch_Short(chunks, i) ==
    SubSeq(chunks, i + 1, Min(i + batch_size - 1, Len(chunks)))

\* chunks[i:i + batch_size], i counted from 0
Batch(chunks, i) == SubSeq(chunks, i + 1, Min(i + batch_size, Len(chunks)))

(* -------------------------- background tasks -------------------------- *)

\* a free task slot. Besides the locals of the running functions a task
\* records what it did: fault (the stage the environment failed, "none"
\* otherwise), writes (its writes to the video's stored status, in order)
\* and calls (the stages and engines it invoked, in order, each with
\* whether it succeeded)
IdleTask ==
    [pc |-> "idle", kind |-> "none", vid |-> "none", run |-> 0,
     status0 |-> "none", result |-> None, chunks |-> <<>>, i |-> 0,
     success |-> "pending", indexed |-> "pending", had_collection |-> FALSE, fault |-> "none",
     writes |-> <<>>, calls |-> <<>>]

NewTask(kind, pc, v) ==
    [IdleTask EXCEPT !.pc = pc, !.kind = kind, !.vid = v, !.run = nruns + 1,
                     !.status0 = videos[v].processing_status]

LogWrite(tk, by, via, status, error) ==
    [tk EXCEPT !.writes = Append(@, [by |-> by, via |-> via,
                                     status |-> status, error |-> error])]

LogCall(tk, op, batch, ok) ==
    [tk EXCEPT !.calls = Append(@, [op |-> op, batch |-> batch, ok |-> ok])]

\* no chat request in progress. gemini_model is the generative model the
\* service was constructed with (None without an API key); calls are the
\* engine and index calls of the request, in order
IdleChat ==
    [pc |-> "idle", gemini_model |-> None, request |-> None,
     relevant_chunks |-> <<>>, response |-> None, raised |-> FALSE,
     calls |-> <<>>, endpoint |-> "none", rejected |-> None,
     conversation_history |-> None, conversation_context |-> <<>>]

\* no chunking call in progress. segments and limit are the arguments
\* (limit is chunk_duration or max_words), i counts the segments the loop
\* has taken, state holds the locals chunks and current_chunk
IdleChunker ==
    [pc |-> "idle", strategy |-> "none", segments |-> <<>>, limit |-> 0,
     i |-> 0, state |-> [chunks |-> <<>>, current_chunk |-> EmptyChunk],
     result |-> <<>>, again |-> <<>>]

Init ==
    /\ videos = [v \in Videos |-> NoRow]
    /\ video_metadata = [v \in Videos |-> NewVideoMetadata]
    /\ transcript_chunks = {}
    /\ collections = [v \in Videos |-> NoCollection]
    /\ task = [t \in Tasks |-> IdleTask]
    /\ nruns = 0
    /\ chat = IdleChat
    /\ chunker = IdleChunker

\* a run may start: one run at a time, in the lowest free slot
CanStart(t) ==
    /\ nruns < MaxRuns
    /\ \A u \in Tasks : task[u].pc = "idle"
    /\ \A u \in Tasks : u >= t

\* upload_video: the video's record is created with status UPLOADING and the
\* background task process_video_pipeline is scheduled
upload_video(t, v) ==
    /\ CanStart(t)
    /\ videos[v] = NoRow
    /\ video_metadata' = [video_metadata EXCEPT ![v] = NewVideoMetadata]
    /\ videos' = save_video_metadata(videos, v, NewVideoMetadata)
    /\ task' = [task EXCEPT ![t] =
                   [NewTask("pipeline", "pv_processing", v) EXCEPT !.status0 = UPLOADING]]
    /\ nruns' = nruns + 1
    /\ UNCHANGED <<transcript_chunks, collections>>
    /\ UNCHANGED <<chat, chunker>>

\* process_video_pipeline invoked again for an uploaded video, with the
\* arguments of the first invocation
process_video_pipeline(t, v) ==
    /\ CanStart(t)
    /\ videos[v] # NoRow
    /\ task' = [task EXCEPT ![t] = NewTask("pipeline", "pv_processing", v)]
    /\ nruns' = nruns + 1
    /\ UNCHANGED <<videos, video_metadata, transcript_chunks, collections>>
    /\ UNCHANGED <<chat, chunker>>

\* process_video_embeddings invoked on its own for an uploaded video
process_video_embeddings(t, v) ==
    /\ CanStart(t)
    /\ videos[v] # NoRow
    /\ task' = [task EXCEPT ![t] = NewTask("index", "pe_embedding", v)]
    /\ nruns' = nruns + 1
    /\ UNCHANGED <<videos, video_metadata, transcript_chunks, collections>>
    /\ UNCHANGED <<chat, chunker>>

\* the task after update_processing_status(video_id, status, error)
Wrote(tk, by, status, error) ==
    LogWrite(tk, by, "update_processing_status", status, error)

\* the task after "update_processing_status(video_id, FAILED, cause);
\* return False": the background task has nothing left to do
Failed(tk, by, cause, fault) ==
    Wrote([tk EXCEPT !.pc = "done", !.fault = fault], by, FAILED, Some(cause))

\* the same in process_video, whose return value is the pipeline's success
PVFailed(tk, cause, fault) ==
    [Failed(tk, "process_video", cause, fault) EXCEPT !.success = "False"]

\* the same in process_video_embeddings; indexed is its return value
PEFailed(tk, cause, fault) ==
    [Failed(tk, "process_video_embeddings", cause, fault) EXCEPT !.indexed = "False"]

(* ---------------------------- process_video --------------------------- *)

PV_Processing(t) ==
    /\ task[t].pc = "pv_processing"
    /\ videos' = update_processing_status(videos, task[t].vid, PROCESSING, None)
    /\ task' = [task EXCEPT ![t] =
                   Wrote([@ EXCEPT !.pc = "pv_extract_audio"],
                         "process_video", PROCESSING, None)]
    /\ UNCHANGED <<video_metadata, transcript_chunks, collections, nruns>>
    /\ UNCHANGED <<chat, chunker>>

\* a process_video that goes on to the next stage after extract_audio failed
PV_ExtractAudio_GoesOn(t) ==
    /\ task[t].pc = "pv_extract_audio"
    /\ \E ok \in BOOLEAN :
         task' = [task EXCEPT ![t] =
                     [LogCall(@, "extract_audio", 0, ok) EXCEPT !.pc = "pv_save_audio"]]
    /\ UNCHANGED <<videos, video_metadata, transcript_chunks, collections, nruns>>
    /\ UNCHANGED <<chat, chunker>>

PV_ExtractAudio(t) ==
    /\ task[t].pc = "pv_extract_audio"
    /\ \E ok \in BOOLEAN :
         LET called == LogCall(task[t], "extract_audio", 0, ok)
         IN  IF ok
             THEN /\ task' = [task EXCEPT ![t] = [called EXCEPT !.pc = "pv_save_audio"]]
                  /\ UNCHANGED videos
             ELSE /\ videos' = update_processing_status(
                                   videos, task[t].vid, FAILED,
                                   Some("Audio extraction failed"))
                  /\ task' = [task EXCEPT ![t] =
                                 PVFailed(called, "Audio extraction failed", "audio")]
    /\ UNCHANGED <<video_metadata, transcript_chunks, collections, nruns>>
    /\ UNCHANGED <<chat, chunker>>

\* video_metadata.audio_path = ...; save_video_metadata(video_metadata)
PV_SaveAudioPath(t) ==
    /\ task[t].pc = "pv_save_audio"
    /\ LET v == task[t].vid
           metadata == [video_metadata[v] EXCEPT !.audio_path = Some("audio.wav")]
       IN  /\ video_metadata' = [video_metadata EXCEPT ![v] = metadata]
           /\ videos' = save_video_metadata(videos, v, metadata)
           /\ task' = [task EXCEPT ![t] =
                          LogWrite([@ EXCEPT !.pc = "pv_transcribing"],
                                   "process_video", "save_video_metadata",
                                   metadata.processing_status,
                                   metadata.processing_error)]
    /\ UNCHANGED <<transcript_chunks, collections, nruns>>
    /\ UNCHANGED <<chat, chunker>>

PV_Transcribing(t) ==
    /\ task[t].pc = "pv_transcribing"
    /\ videos' = update_processing_status(videos, task[t].vid, TRANSCRIBING, None)
    /\ task' = [task EXCEPT ![t] =
                   Wrote([@ EXCEPT !.pc = "pv_transcribe_audio"],
                         "process_video", TRANSCRIBING, None)]
    /\ UNCHANGED <<video_metadata, transcript_chunks, collections, nruns>>
    /\ UNCHANGED <<chat, chunker>>

PV_TranscribeAudio(t) ==
    /\ task[t].pc = "pv_transcribe_audio"
    /\ \E transcription_result \in TranscriptionResults :
         LET called == LogCall(task[t], "transcribe_audio", 0, transcription_result # None)
         IN  IF transcription_result # None
             THEN /\ task' = [task EXCEPT ![t] =
                                 [called EXCEPT !.pc = "pv_save_transcript",
                                                !.result = transcription_result]]
                  /\ UNCHANGED videos
             ELSE /\ videos' = update_processing_status(
                                   videos, task[t].vid, FAILED,
                                   Some("Transcription failed"))
                  /\ task' = [task EXCEPT ![t] =
                                 PVFailed(called, "Transcription failed", "transcription")]
    /\ UNCHANGED <<video_metadata, transcript_chunks, collections, nruns>>
    /\ UNCHANGED <<chat, chunker>>

\* a process_video that gives up when the transcript file was not written
PV_SaveTranscript_Required(t) ==
    /\ task[t].pc = "pv_save_transcript"
    /\ \E transcript_path \in {"transcript.txt", ""} :
         LET called == LogCall(task[t], "save_transcript_to_file", 0,
                               transcript_path # "")
         IN  IF transcript_path # ""
             THEN /\ video_metadata' = [video_metadata EXCEPT
                         ![task[t].vid].transcript_path = Some(transcript_path)]
                  /\ task' = [task EXCEPT ![t] = [called EXCEPT !.pc = "pv_chunking"]]
                  /\ UNCHANGED videos
             ELSE /\ videos' = update_processing_status(
                                   videos, task[t].vid, FAILED,
                                   Some("Transcript not saved"))
                  /\ task' = [task EXCEPT ![t] =
                                 PVFailed(called, "Transcript not saved", "transcript")]
                  /\ UNCHANGED video_metadata
    /\ UNCHANGED <<transcript_chunks, collections, nruns>>
    /\ UNCHANGED <<chat, chunker>>

\* save_transcript_to_file returns the path, or "" when the write failed
PV_SaveTranscript(t) ==
    /\ task[t].pc = "pv_save_transcript"
    /\ \E transcript_path \in {"transcript.txt", ""} :
         /\ video_metadata' = [video_metadata EXCEPT
                                  ![task[t].vid].transcript_path = Some(transcript_path)]
         /\ task' = [task EXCEPT ![t] =
                        LogCall([@ EXCEPT !.pc = "pv_chunking"],
                                "save_transcript_to_file", 0, transcript_path # "")]
    /\ UNCHANGED <<videos, transcript_chunks, collections, nruns>>
    /\ UNCHANGED <<chat, chunker>>

PV_Chunking(t) ==
    /\ task[t].pc = "pv_chunking"
    /\ videos' = update_processing_status(videos, task[t].vid, CHUNKING, None)
    /\ task' = [task EXCEPT ![t] =
                   Wrote([@ EXCEPT !.pc = "pv_create_chunks"],
                         "process_video", CHUNKING, None)]
    /\ UNCHANGED <<video_metadata, transcript_chunks, collections, nruns>>
    /\ UNCHANGED <<chat, chunker>>

PV_CreateChunks(t) ==
    /\ task[t].pc = "pv_create_chunks"
    /\ LET chunks == create_transcript_chunks(task[t].vid, task[t].result[1], task[t].run)
           called == LogCall(task[t], "create_transcript_chunks", 0, chunks # <<>>)
       IN  IF chunks # <<>>
           THEN /\ task' = [task EXCEPT ![t] =
                               [called EXCEPT !.pc = "pv_save_chunks", !.chunks = chunks]]
                /\ UNCHANGED videos
           ELSE /\ videos' = update_processing_status(
                                 videos, task[t].vid, FAILED, Some("Chunking failed"))
                /\ task' = [task EXCEPT ![t] =
                               PVFailed(called, "Chunking failed", "chunking")]
    /\ UNCHANGED <<video_metadata, transcript_chunks, collections, nruns>>
    /\ UNCHANGED <<chat, chunker>>

\* a process_video that reports a failed save under the chunking cause
PV_SaveChunks_ChunkingCause(t) ==
    /\ task[t].pc = "pv_save_chunks"
    /\ \E ok \in BOOLEAN :
         LET called == LogCall(task[t], "save_transcript_chunks", 0, ok)
         IN  IF ok
             THEN /\ transcript_chunks' =
                         save_transcript_chunks(transcript_chunks, task[t].chunks)
                  /\ task' = [task EXCEPT ![t] = [called EXCEPT !.pc = "pv_total_chunks"]]
                  /\ UNCHANGED videos
             ELSE /\ videos' = update_processing_status(
                                   videos, task[t].vid, FAILED, Some("Chunking failed"))
                  /\ task' = [task EXCEPT ![t] =
                                 PVFailed(called, "Chunking failed", "save_chunks")]
                  /\ UNCHANGED transcript_chunks
    /\ UNCHANGED <<video_metadata, collections, nruns>>
    /\ UNCHANGED <<chat, chunker>>

PV_SaveChunks(t) ==
    /\ task[t].pc = "pv_save_chunks"
    /\ \E ok \in BOOLEAN :
         LET called == LogCall(task[t], "save_transcript_chunks", 0, ok)
         IN  IF ok
             THEN /\ transcript_chunks' =
                         save_transcript_chunks(transcript_chunks, task[t].chunks)
                  /\ task' = [task EXCEPT ![t] = [called EXCEPT !.pc = "pv_total_chunks"]]
                  /\ UNCHANGED videos
             ELSE /\ videos' = update_processing_status(
                                   videos, task[t].vid, FAILED,
                                   Some("Failed to save chunks"))
                  /\ task' = [task EXCEPT ![t] =
                                 PVFailed(called, "Failed to save chunks", "save_chunks")]
                  /\ UNCHANGED transcript_chunks
    /\ UNCHANGED <<video_metadata, collections, nruns>>
    /\ UNCHANGED <<chat, chunker>>

\* video_metadata.total_chunks = len(chunks); save_video_metadata(video_metadata)
PV_SaveTotalChunks(t) ==
    /\ task[t].pc = "pv_total_chunks"
    /\ LET v == task[t].vid
           metadata == [video_metadata[v] EXCEPT
                           !.total_chunks = Some(Len(task[t].chunks))]
       IN  /\ video_metadata' = [video_metadata EXCEPT ![v] = metadata]
           /\ videos' = save_video_metadata(videos, v, metadata)
           /\ task' = [task EXCEPT ![t] =
                          LogWrite([@ EXCEPT !.pc = "pv_embedding"],
                                   "process_video", "save_video_metadata",
                                   metadata.processing_status,
                                   metadata.processing_error)]
    /\ UNCHANGED <<transcript_chunks, collections, nruns>>
    /\ UNCHANGED <<chat, chunker>>

\* a process_video that marks the video COMPLETED itself
PV_Embedding_Completes(t) ==
    /\ task[t].pc = "pv_embedding"
    /\ videos' = update_processing_status(videos, task[t].vid, COMPLETED, None)
    /\ task' = [task EXCEPT ![t] =
                   Wrote([@ EXCEPT !.pc = "pl_success", !.success = "True"],
                         "process_video", COMPLETED, None)]
    /\ UNCHANGED <<video_metadata, transcript_chunks, collections, nruns>>
    /\ UNCHANGED <<chat, chunker>>

\* the last write of process_video, which then returns True
PV_Embedding(t) ==
    /\ task[t].pc = "pv_embedding"
    /\ videos' = update_processing_status(videos, task[t].vid, EMBEDDING, None)
    /\ task' = [task EXCEPT ![t] =
                   Wrote([@ EXCEPT !.pc = "pl_success", !.success = "True"],
                         "process_video", EMBEDDING, None)]
    /\ UNCHANGED <<video_metadata, transcript_chunks, collections, nruns>>
    /\ UNCHANGED <<chat, chunker>>

\* the steps of process_video between two status writes
PVStages ==
    {"pv_extract_audio", "pv_save_audio", "pv_transcribe_audio",
     "pv_save_transcript", "pv_create_chunks", "pv_save_chunks", "pv_total_chunks"}

\* except Exception as e: update_processing_status(FAILED, str(e)); return False
PV_Exception(t) ==
    /\ task[t].pc \in PVStages
    /\ videos' = update_processing_status(videos, task[t].vid, FAILED, Some("str(e)"))
    /\ task' = [task EXCEPT ![t] = PVFailed(@, "str(e)", "exception")]
    /\ UNCHANGED <<video_metadata, transcript_chunks, collections, nruns>>
    /\ UNCHANGED <<chat, chunker>>

(* ------------------------ process_video_pipeline ---------------------- *)

\* if success: await rag_service.process_video_embeddings(video_metadata.id)
Pipeline_CallEmbeddings(t) ==
    /\ task[t].pc = "pl_success"
    /\ task' = [task EXCEPT ![t].pc = "pe_embedding"]
    /\ UNCHANGED <<videos, video_metadata, transcript_chunks, collections, nruns>>
    /\ UNCHANGED <<chat, chunker>>

\* a background task without its handler: the exception ends the task and
\* nothing is recorded
Pipeline_Exception_Unhandled(t) ==
    /\ task[t].pc = "pl_success"
    /\ task' = [task EXCEPT ![t] = [@ EXCEPT !.pc = "done", !.fault = "exception"]]
    /\ UNCHANGED <<videos, video_metadata, transcript_chunks, collections, nruns>>
    /\ UNCHANGED <<chat, chunker>>

\* except Exception as e: update_processing_status(FAILED, str(e))
Pipeline_Exception(t) ==
    /\ task[t].pc = "pl_success"
    /\ videos' = update_processing_status(videos, task[t].vid, FAILED, Some("str(e)"))
    /\ task' = [task EXCEPT ![t] =
                   Failed(@, "process_video_pipeline", "str(e)", "exception")]
    /\ UNCHANGED <<video_metadata, transcript_chunks, collections, nruns>>
    /\ UNCHANGED <<chat, chunker>>

(* ----------------------- process_video_embeddings --------------------- *)

\* an indexer that starts without writing EMBEDDING
PE_Embedding_Silent(t) ==
    /\ task[t].pc = "pe_embedding"
    /\ task' = [task EXCEPT ![t] =
                   LogCall([@ EXCEPT !.pc = "pe_get_chunks"],
                           "process_video_embeddings", 0, TRUE)]
    /\ UNCHANGED <<videos, video_metadata, transcript_chunks, collections, nruns>>
    /\ UNCHANGED <<chat, chunker>>

\* process_video_embeddings: the EMBEDDING write
PE_Embedding(t) ==
    /\ task[t].pc = "pe_embedding"
    /\ videos' = update_processing_status(videos, task[t].vid, EMBEDDING, None)
    /\ task' = [task EXCEPT ![t] =
                   Wrote(LogCall([@ EXCEPT !.pc = "pe_get_chunks"],
                                 "process_video_embeddings", 0, TRUE),
                         "process_video_embeddings", EMBEDDING, None)]
    /\ UNCHANGED <<video_metadata, transcript_chunks, collections, nruns>>
    /\ UNCHANGED <<chat, chunker>>

\* an indexer without the check for an empty chunk list
PE_GetChunks_NoCheck(t) ==
    /\ task[t].pc = "pe_get_chunks"
    /\ \E order \in TieOrders :
         task' = [task EXCEPT ![t] =
                     [LogCall(@, "get_transcript_chunks", 0, TRUE) EXCEPT
                         !.pc = "ce_collection",
                         !.chunks = get_transcript_chunks(
                                        transcript_chunks, task[t].vid, order)]]
    /\ UNCHANGED <<videos, video_metadata, transcript_chunks, collections, nruns>>
    /\ UNCHANGED <<chat, chunker>>

PE_GetChunks(t) ==
    /\ task[t].pc = "pe_get_chunks"
    /\ \E order \in TieOrders :
         LET called == LogCall(task[t], "get_transcript_chunks", 0, TRUE)
             chunks == get_transcript_chunks(transcript_chunks, task[t].vid, order)
         IN  IF chunks # <<>>
             THEN /\ task' = [task EXCEPT ![t] =
                                 [called EXCEPT !.pc = "ce_collection", !.chunks = chunks]]
                  /\ UNCHANGED videos
             ELSE /\ videos' = update_processing_status(
                                   videos, task[t].vid, FAILED,
                                   Some("No transcript chunks found"))
                  /\ task' = [task EXCEPT ![t] =
                                 PEFailed(called, "No transcript chunks found",
                                          "no_chunks")]
    /\ UNCHANGED <<video_metadata, transcript_chunks, collections, nruns>>
    /\ UNCHANGED <<chat, chunker>>

\* create_embeddings up to the batch loop: return True for an empty chunk
\* list, else load the embedding model, then
\*     try: collection = get_collection(name); collection.delete()
\*     except: pass
\*     collection = create_collection(name)
\* get_collection raises when there is no collection of that name.
\* Collection.delete() without ids or filter removes records, never the
\* collection: it empties it or raises, depending on the index version.
\* create_collection raises when a collection of that name exists.
CE_Collection(t) ==
    /\ task[t].pc = "ce_collection"
    /\ LET v == task[t].vid
           entered == [task[t] EXCEPT !.had_collection = collections[v].exists]
       IN  \E engine_ok \in BOOLEAN :
               IF task[t].chunks = <<>>
               THEN /\ task' = [task EXCEPT ![t] =
                                   [LogCall(entered, "create_embeddings", 0, TRUE)
                                       EXCEPT !.pc = "pe_complete"]]
                    /\ UNCHANGED collections
               ELSE IF ~engine_ok
               THEN /\ task' = [task EXCEPT ![t] =
                                   [LogCall(entered, "create_embeddings", 0, FALSE)
                                       EXCEPT !.pc = "pe_failed", !.fault = "embedding"]]
                    /\ UNCHANGED collections
               ELSE IF collections[v].exists
               THEN /\ \E emptied \in BOOLEAN :
                           collections' = [collections EXCEPT ![v].items =
                                              IF emptied THEN {} ELSE @]
                    /\ task' = [task EXCEPT ![t] =
                                   [LogCall(entered, "create_embeddings", 0, FALSE)
                                       EXCEPT !.pc = "pe_failed"]]
               ELSE /\ collections' = [collections EXCEPT ![v] =
                                          [exists |-> TRUE, items |-> {}]]
                    /\ task' = [task EXCEPT ![t] =
                                   [LogCall(entered, "create_embeddings", 0, TRUE)
                                       EXCEPT !.pc = "ce_batch", !.i = 0]]
    /\ UNCHANGED <<videos, video_metadata, transcript_chunks, nruns>>
    /\ UNCHANGED <<chat, chunker>>

\* a batch loop that skips a batch that failed and goes on with the next
CE_Batch_SkipsFailed(t) ==
    /\ task[t].pc = "ce_batch"
    /\ LET v == task[t].vid
           i == task[t].i
           batch_chunks == Batch(task[t].chunks, i)
       IN  \E ok \in BOOLEAN :
               /\ collections' =
                      [collections EXCEPT ![v].items =
                          IF ok THEN @ \cup {VectorOf(c) : c \in Range(batch_chunks)}
                          ELSE @]
               /\ task' = [task EXCEPT ![t] =
                              [LogCall(@, "encode", i \div batch_size + 1, ok) EXCEPT
                                  !.i = i + batch_size,
                                  !.fault = IF ok THEN @ ELSE "embedding",
                                  !.pc = IF i + batch_size < Len(task[t].chunks)
                                         THEN "ce_batch" ELSE "pe_complete"]]
    /\ UNCHANGED <<videos, video_metadata, transcript_chunks, nruns>>
    /\ UNCHANGED <<chat, chunker>>

\* one turn of the batch loop: encode the batch, add it to the collection
CE_Batch(t) ==
    /\ task[t].pc = "ce_batch"
    /\ LET v == task[t].vid
           i == task[t].i
           batch_chunks == Batch(task[t].chunks, i)
       IN  \E ok \in BOOLEAN :
               LET called == LogCall(task[t], "encode", i \div batch_size + 1, ok)
               IN  IF ok
                   THEN /\ collections' =
                               [collections EXCEPT ![v].items =
                                   @ \cup {VectorOf(c) : c \in Range(batch_chunks)}]
                        /\ task' = [task EXCEPT ![t] =
                                       [called EXCEPT
                                           !.i = i + batch_size,
                                           !.pc = IF i + batch_size < Len(task[t].chunks)
                                                  THEN "ce_batch" ELSE "pe_complete"]]
                   ELSE /\ task' = [task EXCEPT ![t] =
                                       [called EXCEPT !.pc = "pe_failed",
                                                      !.fault = "embedding"]]
                        /\ UNCHANGED collections
    /\ UNCHANGED <<videos, video_metadata, transcript_chunks, nruns>>
    /\ UNCHANGED <<chat, chunker>>

\* an indexer that writes FAILED and then carries on to its last step
PE_Failed_CarriesOn(t) ==
    /\ task[t].pc = "pe_failed"
    /\ videos' = update_processing_status(
                     videos, task[t].vid, FAILED, Some("Embedding creation failed"))
    /\ task' = [task EXCEPT ![t] =
                   Wrote([@ EXCEPT !.pc = "pe_complete"], "process_video_embeddings",
                         FAILED, Some("Embedding creation failed"))]
    /\ UNCHANGED <<video_metadata, transcript_chunks, collections, nruns>>
    /\ UNCHANGED <<chat, chunker>>

\* create_embeddings returned False
PE_Failed(t) ==
    /\ task[t].pc = "pe_failed"
    /\ videos' = update_processing_status(
                     videos, task[t].vid, FAILED, Some("Embedding creation failed"))
    /\ task' = [task EXCEPT ![t] =
                   PEFailed(@, "Embedding creation failed", task[t].fault)]
    /\ UNCHANGED <<video_metadata, transcript_chunks, collections, nruns>>
    /\ UNCHANGED <<chat, chunker>>

\* create_embeddings returned True
PE_Completed(t) ==
    /\ task[t].pc = "pe_complete"
    /\ videos' = update_processing_status(videos, task[t].vid, COMPLETED, None)
    /\ task' = [task EXCEPT ![t] =
                   Wrote([@ EXCEPT !.pc = "done", !.indexed = "True"],
                         "process_video_embeddings", COMPLETED, None)]
    /\ UNCHANGED <<video_metadata, transcript_chunks, collections, nruns>>
    /\ UNCHANGED <<chat, chunker>>

\* except Exception as e: update_processing_status(FAILED, str(e)); return False
PE_Exception(t) ==
    /\ task[t].pc = "pe_get_chunks"
    /\ videos' = update_processing_status(videos, task[t].vid, FAILED, Some("str(e)"))
    /\ task' = [task EXCEPT ![t] =
                   PEFailed(@, "str(e)", "exception")]
    /\ UNCHANGED <<video_metadata, transcript_chunks, collections, nruns>>
    /\ UNCHANGED <<chat, chunker>>

\* the background task has returned: its slot is free again
TaskReturns(t) ==
    /\ task[t].pc = "done"
    /\ task' = [task EXCEPT ![t] = IdleTask]
    /\ UNCHANGED <<videos, video_metadata, transcript_chunks, collections, nruns>>
    /\ UNCHANGED <<chat, chunker>>

Next ==
    \E t \in Tasks :
        \/ \E v \in Videos : upload_video(t, v)
        \/ \E v \in Videos : process_video_pipeline(t, v)
        \/ \E v \in Videos : process_video_embeddings(t, v)
        \/ PV_Processing(t)
        \/ PV_ExtractAudio(t)
        \/ PV_SaveAudioPath(t)
        \/ PV_Transcribing(t)
        \/ PV_TranscribeAudio(t)
        \/ PV_SaveTranscript(t)
        \/ PV_Chunking(t)
        \/ PV_CreateChunks(t)
        \/ PV_SaveChunks(t)
        \/ PV_SaveTotalChunks(t)
        \/ PV_Embedding(t)
        \/ PV_Exception(t)
        \/ Pipeline_CallEmbeddings(t)
        \/ Pipeline_Exception(t)
        \/ PE_Embedding(t)
        \/ PE_GetChunks(t)
        \/ CE_Collection(t)
        \/ CE_Batch(t)
        \/ PE_Failed(t)
        \/ PE_Completed(t)
        \/ PE_Exception(t)
        \/ TaskReturns(t)

Spec == Init /\ [][Next]_vars

(* ------------------------- overlapping runs --------------------------- *)

\* two background tasks on the event loop at once, the two runs of the video
Overlapping == {1, 2}

ConcurrentInit ==
    /\ videos = [v \in Videos |-> NoRow]
    /\ video_metadata = [v \in Videos |-> NewVideoMetadata]
    /\ transcript_chunks = {}
    /\ collections = [v \in Videos |-> NoCollection]
    /\ task = [t \in Overlapping |-> IdleTask]
    /\ nruns = 0
    /\ chat = IdleChat
    /\ chunker = IdleChunker

\* the lectures transcribed while runs overlap are brief
BriefResults == {None} \cup {Some([segments |-> x]) : x \in {NoSpeech, ShortLecture}}

\* transcribe_audio and the test of its result in process_video, for a brief
\* lecture
PV_TranscribeBrief(t) ==
    /\ task[t].pc = "pv_transcribe_audio"
    /\ \E transcription_result \in BriefResults :
         LET called == LogCall(task[t], "transcribe_audio", 0, transcription_result # None)
         IN  IF transcription_result # None
             THEN /\ task' = [task EXCEPT ![t] =
                                 [called EXCEPT !.pc = "pv_save_transcript",
                                                !.result = transcription_result]]
                  /\ UNCHANGED videos
             ELSE /\ videos' = update_processing_status(
                                   videos, task[t].vid, FAILED,
                                   Some("Transcription failed"))
                  /\ task' = [task EXCEPT ![t] =
                                 PVFailed(called, "Transcription failed", "transcription")]
    /\ UNCHANGED <<video_metadata, transcript_chunks, collections, nruns>>
    /\ UNCHANGED <<chat, chunker>>

\* a run that waits until no other run is in progress
process_video_pipeline_exclusive(t, v) ==
    /\ nruns < Cardinality(Overlapping)
    /\ \A u \in DOMAIN task : task[u].pc = "idle"
    /\ videos[v] # NoRow
    /\ task' = [task EXCEPT ![t] = NewTask("pipeline", "pv_processing", v)]
    /\ nruns' = nruns + 1
    /\ UNCHANGED <<videos, video_metadata, transcript_chunks, collections>>
    /\ UNCHANGED <<chat, chunker>>

\* process_video_pipeline is scheduled for an uploaded video while another
\* run may be in progress: nothing in process_video_pipeline, process_video
\* or the record store looks at other runs
process_video_pipeline_overlapping(t, v) ==
    /\ nruns < Cardinality(Overlapping)
    /\ task[t].pc = "idle"
    /\ videos[v] # NoRow
    /\ task' = [task EXCEPT ![t] = NewTask("pipeline", "pv_processing", v)]
    /\ nruns' = nruns + 1
    /\ UNCHANGED <<videos, video_metadata, transcript_chunks, collections>>
    /\ UNCHANGED <<chat, chunker>>

\* the event loop runs one task up to its next await
ConcurrentNext ==
    \E t \in Overlapping :
        \/ \E v \in Videos : upload_video(t, v)
        \/ \E v \in Videos : process_video_pipeline_overlapping(t, v)
        \/ PV_Processing(t)
        \/ PV_ExtractAudio(t)
        \/ PV_SaveAudioPath(t)
        \/ PV_Transcribing(t)
        \/ PV_TranscribeBrief(t)
        \/ PV_SaveTranscript(t)
        \/ PV_Chunking(t)
        \/ PV_CreateChunks(t)
        \/ PV_SaveChunks(t)
        \/ PV_SaveTotalChunks(t)
        \/ PV_Embedding(t)
        \/ Pipeline_CallEmbeddings(t)
        \/ PE_Embedding(t)
        \/ PE_GetChunks(t)
        \/ CE_Collection(t)
        \/ CE_Batch(t)
        \/ PE_Failed(t)
        \/ PE_Completed(t)
        \/ TaskReturns(t)

SpecConcurrent == ConcurrentInit /\ [][ConcurrentNext]_vars

(* -------------------------------- chat -------------------------------- *)

\* chunks of the largest indexed lecture a query meets
MaxIndexed == 6

\* scores and distances are counted in hundredths: 1.0 is Unit
Unit == 100
\* min(0.95, avg_relevance)
confidence_cap == 95
\* generate_response retrieves with top_k=5
top_k == 5

Max(a, b) == IF a > b THEN a ELSE b

\* distances the index reports. The collection is created without an
\* hnsw:space setting, so they are squared L2 distances, never negative:
\* coincident, below 1, exactly 1, above 1
Distances == {0, 40, Unit, 170}

\* a lecture of n segments, one chunk each
Lecture(n) ==
    [i \in 1..n |->
        [start |-> (i - 1) * 100, end |-> i * 100, text |-> <<Word("topic")>>]]

IndexedChunks(v, n) ==
    IF n <= 0 THEN <<>>
    ELSE create_transcript_chunks(v, [segments |-> Lecture(n)], 1)

\* a score without the clamp at 0
relevance_score_unclamped(distance) == Unit - distance

\* relevance_score = max(0, 1 - distance)
relevance_score(distance) == Max(0, Unit - distance)

\* a RelevantChunk that reports the distance as its score
RelevantChunkOf_Distance(hit, distance) ==
    [chunk_id |-> hit.id,
     text |-> hit.document,
     start_time |-> hit.metadata.start_time,
     end_time |-> hit.metadata.end_time,
     relevance_score |-> distance,
     formatted_timestamp |-> hit.metadata.formatted_timestamp]

\* RelevantChunk(...) built from one result of collection.query
RelevantChunkOf(hit, distance) ==
    [chunk_id |-> hit.id,
     text |-> hit.document,
     start_time |-> hit.metadata.start_time,
     end_time |-> hit.metadata.end_time,
     relevance_score |-> relevance_score(distance),
     formatted_timestamp |-> hit.metadata.formatted_timestamp]

\* the entries of a collection in some order the index can rank them in
RECURSIVE ByChunkIndex(_)
ByChunkIndex(items) ==
    IF items = {} THEN <<>>
    ELSE LET first == CHOOSE x \in items :
                          \A y \in items : x.metadata.chunk_index <= y.metadata.chunk_index
         IN  <<first>> \o ByChunkIndex(items \ {first})

\* distance lists of m results, nearest first
Ranked(m) ==
    {d \in [1..m -> Distances] : \A i \in 1..(m - 1) : d[i] <= d[i + 1]}

\* what collection.query(query_embeddings, n_results) can return: at most
\* n_results entries of the collection with their distances, nearest first
QueryResults(collection, n_results) ==
    UNION {{[hits |-> ByChunkIndex(h), distances |-> d] : d \in Ranked(Cardinality(h))} :
              h \in {g \in SUBSET collection.items : Cardinality(g) <= n_results}}

\* what can go wrong inside retrieve_relevant_chunks
RetrieveFaults == {"none", "load_model", "encode", "query"}

ChatCall(op, ok) == [op |-> op, ok |-> ok]

\* a retrieve_relevant_chunks whose failures leave it as exceptions
retrieve_relevant_chunks_raises(collection, fault, results) ==
    IF fault # "none" \/ ~collection.exists
    THEN [relevant_chunks |-> <<>>, raised |-> TRUE, calls |-> <<>>]
    ELSE [relevant_chunks |->
              [i \in 1..Len(results.hits) |->
                  RelevantChunkOf(results.hits[i], results.distances[i])],
          raised |-> FALSE,
          calls |-> <<ChatCall("get_collection", TRUE), ChatCall("encode", TRUE),
                      ChatCall("query", TRUE)>>]

\* RAGService.retrieve_relevant_chunks: the list it returns, whether an
\* exception left it, and the calls it made. results is the index's answer
\* in case the query is reached and succeeds.
retrieve_relevant_chunks(collection, fault, results) ==
    IF fault = "load_model"
    THEN [relevant_chunks |-> <<>>, raised |-> FALSE, calls |-> <<>>]
    ELSE IF ~collection.exists
    THEN [relevant_chunks |-> <<>>, raised |-> FALSE,
          calls |-> <<ChatCall("get_collection", FALSE)>>]
    ELSE IF fault = "encode"
    THEN [relevant_chunks |-> <<>>, raised |-> FALSE,
          calls |-> <<ChatCall("get_collection", TRUE), ChatCall("encode", FALSE)>>]
    ELSE IF fault = "query"
    THEN [relevant_chunks |-> <<>>, raised |-> FALSE,
          calls |-> <<ChatCall("get_collection", TRUE), ChatCall("encode", TRUE),
                      ChatCall("query", FALSE)>>]
    ELSE [relevant_chunks |->
              [i \in 1..Len(results.hits) |->
                  RelevantChunkOf(results.hits[i], results.distances[i])],
          raised |-> FALSE,
          calls |-> <<ChatCall("get_collection", TRUE), ChatCall("encode", TRUE),
                      ChatCall("query", TRUE)>>]

CouldNotFindAnswer == "I couldn't find relevant information in the lecture"
TechnicalDifficultiesAnswer == "I'm experiencing technical difficulties"
UnableToGenerateAnswer == "I'm unable to generate a response at the moment."

\* a score as the quotient num / den of hundredths
Zero == [num |-> 0, den |-> 1]

RECURSIVE SumRelevance(_)
SumRelevance(relevant_chunks) ==
    IF relevant_chunks = <<>> THEN 0
    ELSE Head(relevant_chunks).relevance_score + SumRelevance(Tail(relevant_chunks))

\* a confidence without the cap
confidence_score_uncapped(relevant_chunks) ==
    [num |-> SumRelevance(relevant_chunks), den |-> Len(relevant_chunks)]

\* min(0.95, sum(relevance_score) / len(relevant_chunks))
confidence_score(relevant_chunks) ==
    LET n == Len(relevant_chunks)
    IN  [num |-> Min(confidence_cap * n, SumRelevance(relevant_chunks)), den |-> n]

ChatResponse(answer, relevant_chunks, video_id, confidence) ==
    Some([answer |-> answer, relevant_chunks |-> relevant_chunks,
          video_id |-> video_id, confidence_score |-> confidence])

pipeline_vars == <<videos, video_metadata, transcript_chunks, collections, task, nruns>>

\* generate_response is called with a question about video v
generate_response(v) ==
    /\ chat.pc = "idle"
    /\ chat' = [chat EXCEPT !.pc = "gr_retrieve",
                            !.request = Some([video_id |-> v, question |-> "question"]),
                            !.relevant_chunks = <<>>,
                            !.response = None,
                            !.calls = <<>>]
    /\ UNCHANGED <<pipeline_vars, chunker>>

\* the except branch of generate_response
TechnicalDifficulties(c) ==
    [c EXCEPT !.pc = "gr_done",
              !.response = ChatResponse(TechnicalDifficultiesAnswer,
                                        c.relevant_chunks,
                                        c.request[1].video_id, Zero)]

\* a generate_response that goes on to the generative engine with no chunks
GR_Retrieve_NoEarlyReturn ==
    /\ chat.pc = "gr_retrieve"
    /\ LET v == chat.request[1].video_id
       IN  \E fault \in RetrieveFaults :
           \E results \in QueryResults(collections[v], top_k) :
               LET got == retrieve_relevant_chunks(collections[v], fault, results)
               IN  chat' = [chat EXCEPT !.calls = got.calls,
                                        !.relevant_chunks = got.relevant_chunks,
                                        !.pc = "gr_generate"]
    /\ UNCHANGED <<pipeline_vars, chunker>>

\* relevant_chunks = await self.retrieve_relevant_chunks(..., top_k=5)
\* if not relevant_chunks: return the could-not-find response
GR_Retrieve ==
    /\ chat.pc = "gr_retrieve"
    /\ LET v == chat.request[1].video_id
       IN  \E fault \in RetrieveFaults :
           \E results \in QueryResults(collections[v], top_k) :
               LET got == retrieve_relevant_chunks(collections[v], fault, results)
                   called == [chat EXCEPT !.calls = got.calls,
                                          !.relevant_chunks = got.relevant_chunks]
               IN  IF got.raised
                   THEN chat' = TechnicalDifficulties(called)
                   ELSE IF got.relevant_chunks = <<>>
                   THEN chat' = [called EXCEPT
                                    !.pc = "gr_done",
                                    !.response = ChatResponse(CouldNotFindAnswer,
                                                              <<>>, v, Zero)]
                   ELSE chat' = [called EXCEPT !.pc = "gr_generate"]
    /\ UNCHANGED <<pipeline_vars, chunker>>

\* a generate_response without the except branch
GR_Generate_Raises ==
    /\ chat.pc = "gr_generate"
    /\ \E outcome \in {"raises", "no_text", "text"} :
         IF chat.gemini_model = None
         THEN chat' = [chat EXCEPT !.pc = "gr_done", !.raised = TRUE]
         ELSE LET called == [chat EXCEPT !.calls =
                                Append(@, ChatCall("generate_content",
                                                   outcome # "raises"))]
              IN  IF outcome = "raises"
                  THEN chat' = [called EXCEPT !.pc = "gr_done", !.raised = TRUE]
                  ELSE chat' = [called EXCEPT
                                   !.pc = "gr_done",
                                   !.response =
                                       ChatResponse(
                                           IF outcome = "text" THEN "response.text"
                                           ELSE UnableToGenerateAnswer,
                                           chat.relevant_chunks,
                                           chat.request[1].video_id,
                                           confidence_score(chat.relevant_chunks))]
    /\ UNCHANGED <<pipeline_vars, chunker>>

\* build the prompt, call the generative engine, score the answer:
\*     if not self.gemini_model: raise Exception(...)
\*     response = ... self.gemini_model.generate_content(prompt)
\*     answer = response.text.strip() if response.text else "I'm unable ..."
\*     confidence_score = min(0.95, avg_relevance)
\* and "except Exception" around it all
GR_Generate ==
    /\ chat.pc = "gr_generate"
    /\ \E outcome \in {"raises", "no_text", "text"} :
         IF chat.gemini_model = None
         THEN chat' = TechnicalDifficulties(chat)
         ELSE LET called == [chat EXCEPT !.calls =
                                Append(@, ChatCall("generate_content",
                                                   outcome # "raises"))]
              IN  IF outcome = "raises"
                  THEN chat' = TechnicalDifficulties(called)
                  ELSE chat' = [called EXCEPT
                                   !.pc = "gr_done",
                                   !.response =
                                       ChatResponse(
                                           IF outcome = "text" THEN "response.text"
                                           ELSE UnableToGenerateAnswer,
                                           chat.relevant_chunks,
                                           chat.request[1].video_id,
                                           confidence_score(chat.relevant_chunks))]
    /\ UNCHANGED <<pipeline_vars, chunker>>

\* the response has been returned to the endpoint
GR_Returns ==
    /\ chat.pc = "gr_done"
    /\ chat' = [IdleChat EXCEPT !.gemini_model = chat.gemini_model]
    /\ UNCHANGED <<pipeline_vars, chunker>>

\* the states a question can meet: no video record (n < -1), no collection
\* (n < 0), a collection a
\* failed rebuild left empty (n = 0), the collection of a completed video of
\* n chunks; the service with and without a generative model
ChatInit ==
    \E n \in (0 - 2)..MaxIndexed : \E gemini_model \in {None, Some("gemini")} :
        LET stored(v) == IndexedChunks(v, IF n = 0 THEN 1 ELSE n)
        IN  /\ videos = [v \in Videos |->
                   IF n < 0 - 1 THEN NoRow ELSE
                   [NewVideoMetadata EXCEPT
                       !.processing_status =
                           IF n > 0 THEN COMPLETED
                           ELSE IF n = 0 THEN FAILED ELSE UPLOADING,
                       !.processing_error =
                           IF n = 0 THEN Some("Embedding creation failed") ELSE None,
                       !.total_chunks =
                           IF n >= 0 THEN Some(Len(stored(v))) ELSE None]]
            /\ video_metadata = [v \in Videos |-> NewVideoMetadata]
            /\ transcript_chunks = UNION {Range(stored(v)) : v \in Videos}
            /\ collections = [v \in Videos |->
                   IF n < 0 THEN NoCollection
                   ELSE [exists |-> TRUE,
                         items |-> {VectorOf(c) : c \in Range(IndexedChunks(v, n))}]]
            /\ task = [t \in Tasks |-> IdleTask]
            /\ nruns = 0
            /\ chat = [IdleChat EXCEPT !.gemini_model = gemini_model]
            /\ chunker = IdleChunker

\* the HTTPException an endpoint raises
HTTPException(status_code, detail) == Some([status_code |-> status_code, detail |-> detail])

\* "Validate video exists and is processed" in chat_with_video and
\* search_video_content: None when the request may go on. metadata is what
\* get_video_metadata returned
Validation(metadata, detail) ==
    IF metadata = None THEN HTTPException(404, "Video not found")
    ELSE IF metadata[1].processing_status # COMPLETED
    THEN HTTPException(400, detail)
    ELSE None

\* DatabaseService.get_video_metadata: the row, or None when there is no
\* row or the read failed
get_video_metadata(rows, video_id, ok) ==
    IF ~ok \/ rows[video_id] = NoRow THEN None ELSE Some(rows[video_id])

\* a chat endpoint that only checks that the video exists
chat_with_video_AnyStatus(v) ==
    /\ chat.pc = "idle"
    /\ \E ok \in BOOLEAN :
         LET video_metadata_ == get_video_metadata(videos, v, ok)
         IN  IF video_metadata_ = None
             THEN chat' = [chat EXCEPT !.pc = "rejected",
                                       !.endpoint = "chat_with_video",
                                       !.rejected = HTTPException(404, "Video not found")]
             ELSE chat' = [chat EXCEPT
                              !.pc = "gr_retrieve",
                              !.endpoint = "chat_with_video",
                              !.request = Some([video_id |-> v, question |-> "question"])]
    /\ UNCHANGED <<pipeline_vars, chunker>>

\* POST /chat/{video_id}
chat_with_video(v) ==
    /\ chat.pc = "idle"
    /\ \E ok \in BOOLEAN :
         LET video_metadata_ == get_video_metadata(videos, v, ok)
             refusal == Validation(video_metadata_, "status message")
         IN  IF refusal # None
             THEN chat' = [chat EXCEPT !.pc = "rejected",
                                       !.endpoint = "chat_with_video",
                                       !.rejected = refusal]
             ELSE chat' = [chat EXCEPT
                              !.pc = "gr_retrieve",
                              !.endpoint = "chat_with_video",
                              !.request = Some([video_id |-> v, question |-> "question"])]
    /\ UNCHANGED <<pipeline_vars, chunker>>

\* values of the search endpoint's limit parameter
SearchLimits == {1, 3}

\* GET /chat/search/{video_id}, up to the call of retrieve_relevant_chunks
search_video_content(v) ==
    /\ chat.pc = "idle"
    /\ \E ok \in BOOLEAN :
         LET video_metadata_ == get_video_metadata(videos, v, ok)
             refusal == Validation(video_metadata_, "Video processing not complete")
         IN  IF refusal # None
             THEN chat' = [chat EXCEPT !.pc = "rejected",
                                       !.endpoint = "search_video_content",
                                       !.rejected = refusal]
             ELSE chat' = [chat EXCEPT
                              !.pc = "search_retrieve",
                              !.endpoint = "search_video_content",
                              !.request = Some([video_id |-> v, question |-> "query"])]
    /\ UNCHANGED <<pipeline_vars, chunker>>

\* relevant_chunks = await rag_service.retrieve_relevant_chunks(video_id,
\* query, top_k=limit), and the results are returned
Search_Retrieve ==
    /\ chat.pc = "search_retrieve"
    /\ LET v == chat.request[1].video_id
       IN  \E limit \in SearchLimits : \E fault \in RetrieveFaults :
           \E results \in QueryResults(collections[v], limit) :
               LET got == retrieve_relevant_chunks(collections[v], fault, results)
               IN  chat' = [chat EXCEPT !.pc = "search_done",
                                        !.calls = got.calls,
                                        !.relevant_chunks = got.relevant_chunks]
    /\ UNCHANGED <<pipeline_vars, chunker>>

\* messages of the longest conversation history sent with a question
MaxHistory == 6

\* conversation_history[-5:]
recent_window == 5

\* roles a ChatMessage can carry (role is a free string)
Roles == {"user", "assistant", "system"}

\* the histories of at most MaxHistory messages; the content of a message
\* is its place in the conversation. None is a request without a history
Histories ==
    {None} \cup
    UNION {{Some([i \in 1..n |-> [role |-> r[i], content |-> i]]) : r \in [1..n -> Roles]} :
              n \in 0..MaxHistory}

\* a context built from the first messages of the history
build_conversation_context_Oldest(conversation_history) ==
    IF conversation_history = None \/ conversation_history = Some(<<>>) THEN <<>>
    ELSE LET history == conversation_history[1]
             recent_messages == SubSeq(history, 1, Min(recent_window, Len(history)))
         IN  [i \in 1..Len(recent_messages) |->
                 [role |-> IF recent_messages[i].role = "user"
                           THEN "Human" ELSE "Assistant",
                  content |-> recent_messages[i].content]]

\* RAGService._build_conversation_context: the lines "{role}: {content}"
\* that are joined with newlines; "" is the empty list of lines
build_conversation_context(conversation_history) ==
    IF conversation_history = None \/ conversation_history = Some(<<>>) THEN <<>>
    ELSE LET history == conversation_history[1]
             recent_messages == SubSeq(history,
                                       Max(1, Len(history) - recent_window + 1),
                                       Len(history))
         IN  [i \in 1..Len(recent_messages) |->
                 [role |-> IF recent_messages[i].role = "user"
                           THEN "Human" ELSE "Assistant",
                  content |-> recent_messages[i].content]]

\* conversation_context = self._build_conversation_context(
\*     request.conversation_history), for some history
BuildConversationContext ==
    /\ chat.pc = "idle"
    /\ \E conversation_history \in Histories :
         chat' = [chat EXCEPT
                     !.pc = "context_built",
                     !.conversation_history = conversation_history,
                     !.conversation_context =
                         build_conversation_context(conversation_history)]
    /\ UNCHANGED <<pipeline_vars, chunker>>

\* the endpoint has answered: an error, or the search results
EndpointReturns ==
    /\ chat.pc \in {"rejected", "search_done", "context_built"}
    /\ chat' = [IdleChat EXCEPT !.gemini_model = chat.gemini_model]
    /\ UNCHANGED <<pipeline_vars, chunker>>

ChatNext ==
    \/ \E v \in Videos : generate_response(v)
    \/ GR_Retrieve
    \/ GR_Generate
    \/ GR_Returns
    \/ \E v \in Videos : chat_with_video(v)
    \/ \E v \in Videos : search_video_content(v)
    \/ Search_Retrieve
    \/ BuildConversationContext
    \/ EndpointReturns

SpecChat == ChatInit /\ [][ChatNext]_vars

(* ------------------------------ chunking ------------------------------ *)

\* segments of the transcripts the chunkers are applied to
MaxSegments == 3

\* texts of a segment: silence, sentences, words without a terminator, a
\* sentence followed by the start of the next
SegmentTexts ==
    {<<>>,
     <<Word("Intro"), Word("to"), WordP("sets", ".")>>,
     <<Word("Sets"), Word("contain"), WordP("elements", ".")>>,
     <<Word("so"), Word("then")>>,
     <<WordP("Yes", "."), Word("and"), Word("so"), Word("on")>>}

\* lengths of a segment in seconds
SegmentDurations == {30, 35}

\* the segments with the given durations and texts, one after the other
\* from second 0
RECURSIVE SegmentsFrom(_, _, _)
SegmentsFrom(start, durations, texts) ==
    IF durations = <<>> THEN <<>>
    ELSE <<[start |-> start, end |-> start + Head(durations), text |-> Head(texts)]>>
             \o SegmentsFrom(start + Head(durations), Tail(durations), Tail(texts))

\* every transcript of at most MaxSegments such segments
SegmentLists ==
    UNION {{SegmentsFrom(0, d, x) : d \in [1..n -> SegmentDurations],
                                    x \in [1..n -> SegmentTexts]} :
              n \in 0..MaxSegments}

\* one minute of speech of one word more than the hybrid strategy's
\* threshold for splitting again
DenseLecture ==
    <<[start |-> 0, end |-> 60,
       text |-> [k \in 1..(hybrid_split_threshold + 1) |-> Word("word")]]>>

ChunkDurations == {30, 60}
WordLimits == {3, 5}

\* a chunker just called: its locals are chunks = [] and the empty
\* current_chunk
ChunkerStarted(strategy, pc, segments, limit, current_chunk) ==
    [IdleChunker EXCEPT !.pc = pc, !.strategy = strategy,
                        !.segments = segments, !.limit = limit,
                        !.state.current_chunk = current_chunk]

\* _chunk_transcript_by_time(segments, chunk_duration) is called, on some
\* transcript with some duration
chunk_by_time ==
    /\ chunker.pc = "idle"
    /\ \E segments \in SegmentLists : \E chunk_duration \in ChunkDurations :
           chunker' = ChunkerStarted("time", "time_loop", segments, chunk_duration,
                                     EmptyChunk)
    /\ UNCHANGED <<pipeline_vars, chat>>

\* one turn of "for segment in segments" in _chunk_transcript_by_time
TimeIteration ==
    /\ chunker.pc = "time_loop"
    /\ chunker.i < Len(chunker.segments)
    /\ chunker' = [chunker EXCEPT
                      !.i = @ + 1,
                      !.state = TimeStep(@, chunker.segments[chunker.i + 1],
                                         chunker.limit)]
    /\ UNCHANGED <<pipeline_vars, chat>>

\* after the loop: "if current_chunk['text']: chunks.append(current_chunk)"
\* and return chunks
LoopFinished(c) ==
    LET last == c.state.current_chunk
    IN  [c EXCEPT !.pc = "done",
                  !.result = IF last.text # <<>>
                             THEN Append(c.state.chunks,
                                         [text |-> last.text, start |-> last.start,
                                          end |-> last.end])
                             ELSE c.state.chunks]

TimeFinish ==
    /\ chunker.pc = "time_loop"
    /\ chunker.i = Len(chunker.segments)
    /\ chunker' = LoopFinished(chunker)
    /\ UNCHANGED <<pipeline_vars, chat>>

\* _chunk_transcript_by_content(segments, max_words) is called
chunk_by_content ==
    /\ chunker.pc = "idle"
    /\ \E segments \in SegmentLists : \E max_words \in WordLimits :
           chunker' = ChunkerStarted("content", "content_loop", segments, max_words,
                                     [text |-> <<>>, start |-> None, end |-> None,
                                      word_count |-> 0])
    /\ UNCHANGED <<pipeline_vars, chat>>

\* one turn of "for segment in segments" in _chunk_transcript_by_content
ContentIteration ==
    /\ chunker.pc = "content_loop"
    /\ chunker.i < Len(chunker.segments)
    /\ chunker' = [chunker EXCEPT
                      !.i = @ + 1,
                      !.state = ContentStep(@, chunker.segments[chunker.i + 1],
                                            chunker.limit)]
    /\ UNCHANGED <<pipeline_vars, chat>>

ContentFinish ==
    /\ chunker.pc = "content_loop"
    /\ chunker.i = Len(chunker.segments)
    /\ chunker' = LoopFinished(chunker)
    /\ UNCHANGED <<pipeline_vars, chat>>

\* the hybrid branch of create_transcript_chunks: the raw chunks
chunk_hybrid ==
    /\ chunker.pc = "idle"
    /\ \E segments \in SegmentLists \cup {DenseLecture} :
           chunker' = [IdleChunker EXCEPT !.pc = "done", !.strategy = "hybrid",
                                          !.segments = segments,
                                          !.limit = hybrid_chunk_duration,
                                          !.i = Len(segments),
                                          !.result = hybrid_raw_chunks(segments)]
    /\ UNCHANGED <<pipeline_vars, chat>>

\* half a minute of speech of more than half of content_max_words words:
\* one sentence and the start of the next, or no terminator at all
DenseWords == (content_max_words \div 2) + 5

DenseTexts ==
    {<<>>,
     [k \in 1..DenseWords |-> IF k = 40 THEN WordP("word", ".") ELSE Word("word")],
     [k \in 1..DenseWords |-> Word("word")]}

\* fast lectures of 50-second segments
DenseLectures ==
    UNION {{SegmentsFrom(0, [k \in 1..n |-> 50], x) : x \in [1..n -> DenseTexts]} :
              n \in 1..MaxSegments}

Strategies == {"time", "content", "hybrid"}

\* create_transcript_chunks(video_id, transcription_result, strategy) is
\* called and returns
create_chunks ==
    /\ chunker.pc = "idle"
    /\ \E segments \in SegmentLists \cup DenseLectures \cup {DenseLecture} :
       \E strategy \in Strategies :
           chunker' = [IdleChunker EXCEPT
                          !.pc = "created", !.strategy = strategy,
                          !.segments = segments, !.i = Len(segments),
                          !.result = create_transcript_chunks_by(
                                         "v1", [segments |-> segments], strategy, 1)]
    /\ UNCHANGED <<pipeline_vars, chat>>

\* the same call is made a second time
create_chunks_again ==
    /\ chunker.pc = "created"
    /\ chunker' = [chunker EXCEPT
                      !.pc = "created_again",
                      !.again = create_transcript_chunks_by(
                                    "v1", [segments |-> chunker.segments],
                                    chunker.strategy, 2)]
    /\ UNCHANGED <<pipeline_vars, chat>>

\* the chunker has returned
ChunkerReturns ==
    /\ chunker.pc \in {"done", "created", "created_again"}
    /\ chunker' = IdleChunker
    /\ UNCHANGED <<pipeline_vars, chat>>

ChunkerNext ==
    \/ chunk_by_time
    \/ TimeIteration
    \/ TimeFinish
    \/ chunk_by_content
    \/ ContentIteration
    \/ ContentFinish
    \/ chunk_hybrid
    \/ create_chunks
    \/ create_chunks_again
    \/ ChunkerReturns

SpecChunker == Init /\ [][ChunkerNext]_vars


(* ------------------------------ properties ---------------------------- *)

Running == {t \in Tasks : task[t].pc # "idle"}

Finished == {t \in Tasks : task[t].pc = "done"}

Stored(t) == videos[task[t].vid]

Statuses(tk) == [i \in 1..Len(tk.writes) |-> tk.writes[i].status]

\* a sequence without its immediate repetitions
RECURSIVE Collapse(_)
Collapse(s) ==
    IF Len(s) <= 1 THEN s
    ELSE IF s[1] = s[2] THEN Collapse(Tail(s))
    ELSE <<s[1]>> \o Collapse(Tail(s))

\* the values the stored status of the task's video took since the task began
StatusHistory(tk) == Collapse(<<tk.status0>> \o Statuses(tk))

IsPrefix(s, u) == Len(s) <= Len(u) /\ SubSeq(u, 1, Len(s)) = s

Canonical == <<UPLOADING, PROCESSING, TRANSCRIBING, CHUNKING, EMBEDDING, COMPLETED>>

\* the task is the first pipeline run of its video, started by the upload
Fresh(tk) == tk.kind = "pipeline" /\ tk.status0 = UPLOADING

\* C1: in the pipeline run of a freshly uploaded video in which no stage
\* fails, the stored status walks UPLOADING, PROCESSING, TRANSCRIBING,
\* CHUNKING, EMBEDDING, COMPLETED: at every moment the values it has taken
\* are a prefix of that sequence, and the whole sequence when the run ends.
C1_StatusSequenceCanonical ==
    \A t \in Running :
        (Fresh(task[t]) /\ task[t].fault = "none")
            => /\ IsPrefix(StatusHistory(task[t]), Canonical)
               /\ task[t].pc = "done" => StatusHistory(task[t]) = Canonical

\* C2: right after the chunk-persistence step of process_video succeeded,
\* the chunk store holds for the video exactly the chunks of this run.
C2_ChunksFullReplace ==
    \A t \in Tasks :
        task[t].pc = "pv_total_chunks"
            => {r \in transcript_chunks : r.video_id = task[t].vid}
                   = Range(task[t].chunks)

ChunkOrdering(chunks) ==
    /\ chunks # <<>> => chunks[1].chunk_index = 0
    /\ \A i \in 1..(Len(chunks) - 1) :
           /\ chunks[i].chunk_index < chunks[i + 1].chunk_index
           /\ chunks[i].start_time <= chunks[i + 1].start_time

\* C3: whatever runs there were, get_transcript_chunks(video_id) returns
\* chunks with strictly increasing chunk_index starting at 0 and
\* non-decreasing start_time.
C3_ChunkOrdering ==
    \A v \in Videos : \A order \in TieOrders :
        ChunkOrdering(get_transcript_chunks(transcript_chunks, v, order))

\* the cause the claim gives for each failing stage of process_video
StageCause(fault) ==
    CASE fault = "audio" -> "Audio extraction failed"
      [] fault = "transcription" -> "Transcription failed"
      [] fault = "chunking" -> "Chunking failed"
      [] fault = "save_chunks" -> "Failed to save chunks"

StageFaults == {"audio", "transcription", "chunking", "save_chunks"}

\* the stage, if any, whose call the task recorded as failed
FailedCalls(tk) == {tk.calls[i].op : i \in {j \in 1..Len(tk.calls) : ~tk.calls[j].ok}}

\* C4: when a stage of process_video has failed, the stored status is FAILED
\* and the stored error names that stage: audio extraction, transcription,
\* chunking, or saving the chunks.
C4_StageFailureCause ==
    \A t \in Finished :
        /\ task[t].fault \in StageFaults
               => /\ Stored(t).processing_status = FAILED
                  /\ Stored(t).processing_error = Some(StageCause(task[t].fault))
        /\ "extract_audio" \in FailedCalls(task[t]) => task[t].fault = "audio"
        /\ "transcribe_audio" \in FailedCalls(task[t]) => task[t].fault = "transcription"
        /\ "create_transcript_chunks" \in FailedCalls(task[t]) => task[t].fault = "chunking"
        /\ "save_transcript_chunks" \in FailedCalls(task[t]) => task[t].fault = "save_chunks"

C4_Witness ==
    \E t \in Finished :
        /\ task[t].fault = "save_chunks"
        /\ Stored(t).processing_status = FAILED
        /\ Stored(t).processing_error = Some("Failed to save chunks")

\* the stages of a run and the engine they use, in pipeline order
StageRank(op) ==
    CASE op = "extract_audio" -> 1
      [] op = "transcribe_audio" -> 2
      [] op = "create_transcript_chunks" -> 3
      [] op = "save_transcript_chunks" -> 4
      [] op = "process_video_embeddings" -> 5
      [] op = "get_transcript_chunks" -> 6
      [] op = "create_embeddings" -> 7
      [] op = "encode" -> 8

IsStage(call) == call.op # "save_transcript_to_file"

\* the stage calls of a task, in the order it made them
StageCalls(tk) == SelectSeq(tk.calls, IsStage)

\* calls of the external engines: audio, transcription, embedding
EngineOps == {"extract_audio", "transcribe_audio", "encode"}

\* the stages ran in pipeline order, each right after the one before it
\* succeeded, and nothing ran after a stage that failed
StagesInOrder(tk) ==
    LET c == StageCalls(tk)
    IN  /\ (tk.kind = "pipeline" /\ c # <<>>) => c[1].op = "extract_audio"
        /\ \A j \in 1..Len(c) : ~c[j].ok => j = Len(c)
        /\ \A j \in 1..(Len(c) - 1) :
               \/ StageRank(c[j + 1].op) = StageRank(c[j].op) + 1
               \/ /\ c[j].op = "encode" /\ c[j + 1].op = "encode"
                  /\ c[j + 1].batch = c[j].batch + 1
        /\ (tk.kind = "pipeline" /\ \E j \in 1..Len(c) : c[j].op = "process_video_embeddings")
               => tk.success = "True"
        /\ tk.success = "False" => tk.pc = "done"

\* every stage was entered at most once, and the embedding engine was called
\* at most once for each batch
OncePerStageAndBatch(tk) ==
    LET c == StageCalls(tk)
    IN  \A i, j \in 1..Len(c) :
            (i # j /\ c[i].op = c[j].op) => (c[i].op = "encode" /\ c[i].batch # c[j].batch)

\* every external engine was called at most once
OncePerEngine(tk) ==
    LET c == StageCalls(tk)
    IN  \A i, j \in 1..Len(c) : (i # j /\ c[i].op = c[j].op) => c[i].op \notin EngineOps

\* C5 (as claimed): within one run the stages execute in the order audio
\* extraction, transcription, chunking, chunk persistence, embedding, each
\* only after the previous one succeeded; every external engine is invoked at
\* most once per run; after a stage fails no later stage runs, and the
\* indexer is invoked only if process_video returned success.
C5_StagesOnceInOrder ==
    \A t \in Running : StagesInOrder(task[t]) /\ OncePerEngine(task[t])

\* C5 (amended): the same, except that the embedding engine is invoked once
\* for every batch of batch_size chunks, in batch order and never twice for
\* the same batch; every other stage and engine is invoked at most once.
C5_StagesInOrderOncePerBatch ==
    \A t \in Running : StagesInOrder(task[t]) /\ OncePerStageAndBatch(task[t])

C5_Witness ==
    \E t \in Finished :
        /\ task[t].kind = "pipeline"
        /\ Stored(t).processing_status = COMPLETED
        /\ Cardinality({j \in 1..Len(task[t].calls) : task[t].calls[j].op = "encode"}) = 3

\* C6: a run that met a failure or an exception inside process_video,
\* process_video_embeddings or process_video_pipeline ends normally, with
\* status FAILED and a cause recorded by its own last write: the exception
\* does not end the background task unrecorded.
C6_FailuresRecorded ==
    \A t \in Finished :
        task[t].fault # "none"
            => /\ Stored(t).processing_status = FAILED
               /\ Stored(t).processing_error # None
               /\ task[t].writes[Len(task[t].writes)].status = FAILED

C6_Witness ==
    \E t \in Finished :
        /\ task[t].fault = "exception"
        /\ task[t].writes[Len(task[t].writes)].by = "process_video_pipeline"
        /\ Stored(t).processing_status = FAILED
        /\ Stored(t).processing_error = Some("str(e)")

Terminal == {FAILED, COMPLETED}

\* a terminal status a run wrote is the last status it wrote
TerminalWriteIsLast ==
    \A t \in Tasks : \A i \in 1..Len(task[t].writes) :
        task[t].writes[i].status \in Terminal => i = Len(task[t].writes)

\* the stored status leaves FAILED or COMPLETED only by the first write of a
\* run started afterwards
LeavesTerminalOnlyByNewRun ==
    \A v \in Videos :
        (videos[v].processing_status \in Terminal
            /\ videos'[v].processing_status # videos[v].processing_status)
        => \E t \in Tasks : /\ task[t].vid = v
                            /\ task[t].writes = <<>>
                            /\ Len(task'[t].writes) = 1

\* C7: once a run has written FAILED or COMPLETED it writes the video's
\* status no more, so the stored status leaves FAILED or COMPLETED only when
\* processing is triggered again.
C7_TerminalWithinRun == []TerminalWriteIsLast /\ [][LeavesTerminalOnlyByNewRun]_vars

C7_Witness ==
    \E t \in Running :
        /\ task[t].status0 = FAILED
        /\ task[t].pc = "done"
        /\ Stored(t).processing_status = COMPLETED

WritesBy(tk, by) == SelectSeq(tk.writes, LAMBDA w : w.by = by)

\* C8: process_video never writes COMPLETED; when it has returned success
\* the last status it wrote is EMBEDDING; only process_video_embeddings
\* writes COMPLETED.
C8_OnlyIndexerCompletes ==
    \A t \in Tasks :
        /\ \A i \in 1..Len(task[t].writes) :
               task[t].writes[i].status = COMPLETED
                   => task[t].writes[i].by = "process_video_embeddings"
        /\ task[t].success = "True"
               => LET w == WritesBy(task[t], "process_video")
                  IN  w # <<>> /\ w[Len(w)].status = EMBEDDING

C8_Witness ==
    \E t \in Tasks :
        /\ task[t].pc = "pl_success"
        /\ task[t].success = "True"
        /\ Stored(t).processing_status = EMBEDDING

\* C9: when the embedding engine or the vector index fails on a batch, the
\* run ends with status FAILED and cause "Embedding creation failed" and
\* never writes COMPLETED, whatever is left in the collection.
C9_BatchFailureFails ==
    \A t \in Finished :
        task[t].fault = "embedding"
            => /\ Stored(t).processing_status = FAILED
               /\ Stored(t).processing_error = Some("Embedding creation failed")
               /\ \A i \in 1..Len(task[t].writes) : task[t].writes[i].status # COMPLETED

\* the second of three batches failed and the first batch's vectors remain
C9_Witness ==
    \E t \in Finished :
        /\ task[t].fault = "embedding"
        /\ Len(task[t].chunks) > 2 * batch_size
        /\ task[t].calls[Len(task[t].calls)] = [op |-> "encode", batch |-> 2, ok |-> FALSE]
        /\ Cardinality(collections[task[t].vid].items) = batch_size
        /\ Stored(t).processing_status = FAILED

\* C10: an embedding run that finds a collection left by an earlier run, and
\* in which neither the embedding engine nor the index fails, ends COMPLETED
\* with the collection holding exactly the vectors of the chunks it read.
C10_CollectionReplaced ==
    \A t \in Finished :
        (task[t].had_collection /\ task[t].fault = "none")
            => /\ Stored(t).processing_status = COMPLETED
               /\ collections[task[t].vid].items
                      = {VectorOf(c) : c \in Range(task[t].chunks)}

\* C11: process_video_embeddings for a video without stored chunks sets
\* FAILED with cause "No transcript chunks found", returns failure, and calls
\* neither create_embeddings nor the embedding engine, so the vector index
\* is left as it was.
C11_NoChunksFails ==
    \A t \in Running :
        LET c == task[t].calls
            found == \E j \in 1..Len(c) : c[j].op = "get_transcript_chunks"
        IN  (found /\ task[t].chunks = <<>>)
                => /\ task[t].pc = "done"
                   /\ task[t].indexed = "False"
                   /\ Stored(t).processing_status = FAILED
                   /\ Stored(t).processing_error = Some("No transcript chunks found")
                   /\ c[Len(c)].op = "get_transcript_chunks"
                   /\ \A j \in 1..Len(c) : c[j].op \notin {"create_embeddings", "encode"}

C11_Witness ==
    \E t \in Finished :
        /\ task[t].kind = "index"
        /\ task[t].fault = "no_chunks"
        /\ task[t].indexed = "False"
        /\ {r \in transcript_chunks : r.video_id = task[t].vid} = {}
        /\ collections[task[t].vid] = NoCollection

(* properties of the chat flow, checked under SpecChat *)

Answered == chat.pc = "gr_done" /\ chat.response # None

\* the retrieval of the request met no collection or a failing engine or
\* index call
RetrievalFailed ==
    \/ chat.calls = <<>>
    \/ \E j \in 1..Len(chat.calls) :
           /\ chat.calls[j].op \in {"get_collection", "encode", "query"}
           /\ ~chat.calls[j].ok

\* the generative engine was missing, or its call failed
GenerationFailed ==
    /\ chat.relevant_chunks # <<>>
    /\ \/ chat.gemini_model = None
       \/ \E j \in 1..Len(chat.calls) :
              chat.calls[j] = ChatCall("generate_content", FALSE)

AtMostCap(confidence) == confidence.num <= confidence_cap * confidence.den

\* C12 (as claimed): the confidence of a response is at most 0.95, and it is
\* 0.0 if and only if the retriever returned an empty list.
C12_ConfidenceZeroIffEmpty ==
    Answered =>
        LET r == chat.response[1]
        IN  /\ AtMostCap(r.confidence_score)
            /\ (r.confidence_score.num = 0) <=> (chat.relevant_chunks = <<>>)

\* C12 (amended): the confidence of a response is between 0.0 and 0.95; it is
\* 0.0 when the retriever returned an empty list, and otherwise it is above
\* 0.0 exactly when the generative engine answered and some retrieved chunk
\* has a relevance score above 0.
C12_ConfidenceBounds ==
    Answered =>
        LET r == chat.response[1]
            rc == chat.relevant_chunks
        IN  /\ AtMostCap(r.confidence_score)
            /\ r.confidence_score.num >= 0
            /\ rc = <<>> => r.confidence_score.num = 0
            /\ (r.confidence_score.num > 0)
                   <=> /\ ~GenerationFailed
                       /\ \E i \in 1..Len(rc) : rc[i].relevance_score > 0

\* the cap is met: every retrieved chunk coincides with the question
C12_Witness ==
    /\ Answered
    /\ Len(chat.relevant_chunks) = top_k
    /\ \A i \in 1..top_k : chat.relevant_chunks[i].relevance_score = Unit
    /\ chat.response[1].confidence_score = [num |-> confidence_cap * top_k, den |-> top_k]

\* C13: every retrieved chunk has a relevance score between 0 and 1, the
\* score being max(0, 1 - d) of a distance d the index reports: 1 - d up to
\* distance 1, and 0 from there on.
C13_RelevanceBounds ==
    /\ \A d \in Distances :
           relevance_score(d) = IF d <= Unit THEN Unit - d ELSE 0
    /\ \A i \in 1..Len(chat.relevant_chunks) :
           /\ chat.relevant_chunks[i].relevance_score \in 0..Unit
           /\ \E d \in Distances :
                  chat.relevant_chunks[i].relevance_score = relevance_score(d)

\* both ends of the range in one result list
C13_Witness ==
    /\ chat.pc = "gr_generate"
    /\ \E i, j \in 1..Len(chat.relevant_chunks) :
           /\ chat.relevant_chunks[i].relevance_score = Unit
           /\ chat.relevant_chunks[j].relevance_score = 0

\* C14: when the video has no collection, or the embedding engine or the
\* index fails during retrieval, or the index finds nothing, retrieval
\* gives the empty list and no exception: generate_response gets past it
\* into its no-chunks branch.
C14_RetrieveNeverRaises ==
    (chat.pc \in {"gr_generate", "gr_done"}
        /\ (RetrievalFailed \/ chat.relevant_chunks = <<>>))
    => /\ chat.relevant_chunks = <<>>
       /\ ~chat.raised
       /\ chat.pc = "gr_done"
       /\ chat.response # None
       /\ chat.response[1].answer # TechnicalDifficultiesAnswer

\* the index call failed on a populated collection
C14_Witness ==
    /\ chat.pc = "gr_done"
    /\ chat.calls = <<ChatCall("get_collection", TRUE), ChatCall("encode", TRUE),
                      ChatCall("query", FALSE)>>
    /\ collections[chat.request[1].video_id].items # {}
    /\ chat.relevant_chunks = <<>>

\* C15: when the retriever returns no chunks, the response is the fixed
\* could-not-find answer with confidence 0.0 and no chunks, and the
\* generative engine is not called.
C15_NoChunksResponse ==
    (chat.pc \in {"gr_generate", "gr_done"} /\ chat.relevant_chunks = <<>>)
    => /\ chat.pc = "gr_done"
       /\ chat.response =
              ChatResponse(CouldNotFindAnswer, <<>>, chat.request[1].video_id, Zero)
       /\ \A j \in 1..Len(chat.calls) : chat.calls[j].op # "generate_content"

\* an empty collection was queried with a generative model at hand
C15_Witness ==
    /\ chat.pc = "gr_done"
    /\ chat.gemini_model # None
    /\ chat.calls = <<ChatCall("get_collection", TRUE), ChatCall("encode", TRUE),
                      ChatCall("query", TRUE)>>
    /\ chat.response =
           ChatResponse(CouldNotFindAnswer, <<>>, chat.request[1].video_id, Zero)

Chunked(strategy) == chunker.pc = "done" /\ chunker.strategy = strategy

\* a sanity link between the loops above and the operators the pipeline uses
ChunkerAgrees ==
    /\ Chunked("time")
           => chunker.result = chunk_transcript_by_time(chunker.segments, chunker.limit)
    /\ Chunked("content")
           => chunker.result = chunk_transcript_by_content(chunker.segments, chunker.limit)

\* one turn of the time chunker's loop closes the current chunk exactly
\* when the chunk has text and the segment's end is more than chunk_duration
\* after the chunk's start; the chunk closed ends where the segment taken
\* before ended, and the segment that closed it starts the next chunk
TimeClosesExactlyWhen ==
    (chunker.pc = "time_loop" /\ chunker'.pc = "time_loop"
        /\ chunker'.i = chunker.i + 1)
    => LET segment == chunker.segments[chunker.i + 1]
           current_chunk == chunker.state.current_chunk
           exceeds == /\ current_chunk.text # <<>>
                      /\ segment.end - current_chunk.start[1] > chunker.limit
       IN  IF exceeds
           THEN /\ chunker'.state.chunks = Append(chunker.state.chunks, current_chunk)
                /\ current_chunk.end = Some(chunker.segments[chunker.i].end)
                /\ chunker'.state.current_chunk =
                       [text |-> segment.text, start |-> Some(segment.start),
                        end |-> Some(segment.end)]
           ELSE /\ chunker'.state.chunks = chunker.state.chunks
                /\ chunker'.state.current_chunk.end = Some(segment.end)

IntroToSets ==
    [start |-> 0, end |-> 30,
     text |-> <<Word("Intro"), Word("to"), WordP("sets", ".")>>]

SetsContainElements ==
    [start |-> 30, end |-> 65,
     text |-> <<Word("Sets"), Word("contain"), WordP("elements", ".")>>]

\* the result for the two segments above with chunk_duration 60
TwoChunkExample ==
    (Chunked("time") /\ chunker.segments = <<IntroToSets, SetsContainElements>>
        /\ chunker.limit = 60)
    => chunker.result =
           <<[text |-> IntroToSets.text, start |-> Some(0), end |-> Some(30)],
             [text |-> SetsContainElements.text, start |-> Some(30), end |-> Some(65)]>>

\* C17: time-bounded chunking closes the current chunk exactly when the next
\* segment's end minus the chunk's start exceeds chunk_duration and the chunk
\* has text; the closed chunk ends at the end of its last segment and the
\* triggering segment starts the next chunk. Segments (0,30,"Intro to
\* sets.") and (30,65,"Sets contain elements.") with chunk_duration 60 give
\* exactly those two chunks.
C17_TimeChunkClosing == []TwoChunkExample /\ [][TimeClosesExactlyWhen]_vars

C17_Witness ==
    /\ Chunked("time")
    /\ chunker.segments = <<IntroToSets, SetsContainElements>>
    /\ chunker.limit = 60
    /\ Len(chunker.result) = 2

\* the chunk spans exactly one segment of the input
SingleSegment(chunk, segments) ==
    \E k \in 1..Len(segments) :
        chunk.start = Some(segments[k].start) /\ chunk.end = Some(segments[k].end)

\* C18: every chunk of time-bounded chunking has text, and spans at most
\* chunk_duration unless it is a single input segment.
C18_TimeChunkSpan ==
    Chunked("time") =>
        \A j \in 1..Len(chunker.result) :
            LET chunk == chunker.result[j]
            IN  /\ chunk.text # <<>>
                /\ \/ chunk.end[1] - chunk.start[1] <= chunker.limit
                   \/ SingleSegment(chunk, chunker.segments)

\* C19: no chunk of content-bounded chunking has more than max_words words,
\* unless some input segment alone has more than max_words words.
C19_ContentChunkWords ==
    Chunked("content") =>
        \/ \E k \in 1..Len(chunker.segments) :
               Len(chunker.segments[k].text) > chunker.limit
        \/ \A j \in 1..Len(chunker.result) :
               Len(chunker.result[j].text) <= chunker.limit

\* C20: under the hybrid strategy a chunk of the 120-second pass with more
\* than 200 words is replaced in the output by chunks of at most 150 words.
C20_HybridResplit ==
    Chunked("hybrid") =>
        LET time_chunks == chunk_transcript_by_time(chunker.segments,
                                                    hybrid_chunk_duration)
        IN  \A i \in 1..Len(time_chunks) :
                Len(time_chunks[i].text) > hybrid_split_threshold
                    => \A j \in 1..Len(chunker.result) :
                           chunker.result[j].start = time_chunks[i].start
                               => Len(chunker.result[j].text) <= hybrid_max_words

\* create_transcript_chunks has returned
Created == chunker.pc \in {"created", "created_again"}

\* C21: the chunks create_transcript_chunks returns have non-empty text,
\* chunk_index 0, 1, ..., n-1 in output order, and word_count equal to the
\* number of words of their text, for every strategy and segment input.
C21_ChunksNumbered ==
    Created =>
        \A j \in 1..Len(chunker.result) :
            /\ chunker.result[j].text # <<>>
            /\ chunker.result[j].chunk_index = j - 1
            /\ chunker.result[j].word_count = Len(chunker.result[j].text)

\* a transcript with silent segments was cut into several chunks
C21_Witness ==
    /\ Created
    /\ Len(chunker.result) >= 2
    /\ \E k \in 1..Len(chunker.segments) : chunker.segments[k].text = <<>>
    /\ chunker.result[2].chunk_index = 1

\* no chunker hands the conversion a chunk without text, so the conversion
\* never skips one
NoRawChunkDropped ==
    Created =>
        \A j \in 1..Len(raw_chunks_of(chunker.strategy, chunker.segments)) :
            raw_chunks_of(chunker.strategy, chunker.segments)[j].text # <<>>

\* a chunk without its id
Content(chunk) ==
    [text |-> chunk.text, start_time |-> chunk.start_time,
     end_time |-> chunk.end_time, chunk_index |-> chunk.chunk_index,
     word_count |-> chunk.word_count]

C23_ChunksRoundTrip ==
    \A t \in Tasks : \A order \in TieOrders :
        task[t].pc = "pv_total_chunks"
            => get_transcript_chunks(transcript_chunks, task[t].vid, order)
                   = task[t].chunks

\* the last call the task logged
LastCall(tk) == tk.calls[Len(tk.calls)]

\* the task has called save_transcript_to_file and the write failed
TranscriptNotSaved(tk) ==
    \E i \in 1..Len(tk.calls) :
        tk.calls[i].op = "save_transcript_to_file" /\ ~tk.calls[i].ok

\* the step in which save_transcript_to_file returns leaves the stored
\* record alone and goes on to the CHUNKING write, whether or not the file
\* was written
TranscriptStepGoesOn ==
    \A t \in Tasks :
        (/\ task[t].pc = "pv_save_transcript"
         /\ Len(task'[t].calls) = Len(task[t].calls) + 1)
        => /\ LastCall(task'[t]).op = "save_transcript_to_file"
           /\ task'[t] = [LogCall(task[t], "save_transcript_to_file", 0,
                                  LastCall(task'[t]).ok)
                             EXCEPT !.pc = "pv_chunking"]
           /\ videos' = videos

\* after a failed transcript write, process_video writes FAILED only for
\* the failure of a later stage
TranscriptFailureNotFatal ==
    \A t \in Tasks :
        TranscriptNotSaved(task[t]) =>
            \A i \in 1..Len(task[t].writes) :
                (task[t].writes[i].by = "process_video"
                     /\ task[t].writes[i].status = FAILED)
                    => task[t].fault \in {"chunking", "save_chunks", "exception"}

\* C25: writing the transcript file is best-effort: when
\* save_transcript_to_file fails, process_video does not set FAILED and goes
\* on with CHUNKING and the remaining stages as if the write had succeeded.
C25_TranscriptBestEffort ==
    []TranscriptFailureNotFatal /\ [][TranscriptStepGoesOn]_vars

\* a run whose transcript file was not written has been indexed and marked
\* COMPLETED
C25_Witness ==
    \E t \in Tasks :
        /\ TranscriptNotSaved(task[t])
        /\ task[t].pc = "done"
        /\ task[t].indexed = "True"
        /\ Stored(t).processing_status = COMPLETED

\* the status and error stored for the task's video just before the task's
\* i-th write (runs do not overlap: the record was last written by the
\* task's previous write, or is as the task found it)
StatusBefore(tk, i) == IF i = 1 THEN tk.status0 ELSE tk.writes[i - 1].status

\* C29: a save_video_metadata of process_video (audio path, transcript path,
\* total_chunks) leaves the video's stored processing status unchanged.
C29_MetadataKeepsStatus ==
    \A t \in Tasks : \A i \in 1..Len(task[t].writes) :
        task[t].writes[i].via = "save_video_metadata"
            => task[t].writes[i].status = StatusBefore(task[t], i)

\* what the event loop can run next of task t
StepOf(t) ==
    \/ PV_Processing(t) \/ PV_ExtractAudio(t) \/ PV_SaveAudioPath(t)
    \/ PV_Transcribing(t) \/ PV_TranscribeBrief(t) \/ PV_SaveTranscript(t)
    \/ PV_Chunking(t) \/ PV_CreateChunks(t) \/ PV_SaveChunks(t)
    \/ PV_SaveTotalChunks(t) \/ PV_Embedding(t) \/ Pipeline_CallEmbeddings(t)
    \/ PE_Embedding(t) \/ PE_GetChunks(t) \/ CE_Collection(t) \/ CE_Batch(t)
    \/ PE_Failed(t) \/ PE_Completed(t) \/ TaskReturns(t)

\* C24: runs for the same video are not mutually excluded: a run can start
\* while another is in progress, and a run in progress can always take its
\* next step, whatever the other run is doing; so their status writes
\* interleave, and a terminal status written by one run is overwritten with
\* a non-terminal status by the other.
C24_RunsNotExcluded ==
    \A t \in Overlapping :
        /\ (task[t].pc = "idle" /\ nruns < Cardinality(Overlapping)
                /\ videos["v1"] # NoRow)
               => ENABLED process_video_pipeline_overlapping(t, "v1")
        /\ task[t].pc # "idle" => ENABLED StepOf(t)

\* run u started while run t was in progress and has ended with a terminal
\* status; t has since written a non-terminal status over it
C24_Witness ==
    \E t, u \in Overlapping :
        /\ t # u
        /\ task[t].vid = task[u].vid
        /\ task[t].run < task[u].run
        /\ task[t].pc \notin {"idle", "done"}
        /\ task[u].pc = "done"
        /\ task[u].writes # <<>>
        /\ task[u].writes[Len(task[u].writes)].status \in {COMPLETED, FAILED}
        /\ task[t].writes # <<>>
        /\ videos[task[t].vid].processing_status
               = task[t].writes[Len(task[t].writes)].status
        /\ videos[task[t].vid].processing_status \notin {COMPLETED, FAILED, UPLOADING}

\* retrieve_relevant_chunks has returned to generate_response
Retrieved == chat.pc \in {"gr_generate", "gr_done"}

\* C26: retrieve_relevant_chunks returns at most top_k chunks, each an entry
\* of the collection of the video asked about, with relevance_score
\* non-increasing along the list.
C26_RetrievalRanked ==
    Retrieved =>
        LET got == chat.relevant_chunks
            items == collections[chat.request[1].video_id].items
        IN  /\ Len(got) <= top_k
            /\ \A i \in 1..Len(got) :
                   \E x \in items : /\ x.id = got[i].chunk_id
                                    /\ x.document = got[i].text
                                    /\ x.metadata.start_time = got[i].start_time
            /\ \A i \in 1..(Len(got) - 1) :
                   got[i].relevance_score >= got[i + 1].relevance_score

\* top_k chunks came back from a larger collection, the first nearer than
\* the last
C26_Witness ==
    /\ Retrieved
    /\ Len(chat.relevant_chunks) = top_k
    /\ Cardinality(collections[chat.request[1].video_id].items) > top_k
    /\ chat.relevant_chunks[1].relevance_score
           > chat.relevant_chunks[top_k].relevance_score

\* an endpoint has taken the request past its validation: the Retriever or
\* the Answer Composer has been invoked for it
Invoked ==
    /\ chat.endpoint # "none"
    /\ chat.pc \in {"gr_retrieve", "gr_generate", "gr_done",
                    "search_retrieve", "search_done"}

\* C27: the chat and search endpoints invoke retrieval or generation for a
\* video only if its record exists with status COMPLETED; for a missing
\* video or any other status the request is rejected with no retrieval and
\* no generation.
C27_EndpointsGated ==
    chat.endpoint # "none" =>
        LET v == chat.request[1].video_id
        IN  /\ Invoked => (videos[v] # NoRow
                              /\ videos[v].processing_status = COMPLETED)
            /\ ~Invoked => /\ chat.pc = "rejected"
                           /\ chat.rejected # None
                           /\ chat.calls = <<>>
                           /\ chat.response = None
            /\ \A u \in Videos :
                   (videos[u] = NoRow \/ videos[u].processing_status # COMPLETED)
                       => (chat.pc = "rejected" /\ chat.calls = <<>>)

\* a question about a video whose processing failed was turned away with
\* status 400
C27_Witness ==
    /\ chat.endpoint = "chat_with_video"
    /\ chat.pc = "rejected"
    /\ chat.rejected # None
    /\ chat.rejected[1].status_code = 400
    /\ videos["v1"].processing_status = FAILED
    /\ collections["v1"].exists

\* C28: the conversation context holds at most the last 5 messages of the
\* history, in their order, each as "Human" for role user and "Assistant"
\* for any other role; an empty or missing history gives the empty context.
C28_ConversationContext ==
    chat.pc = "context_built" =>
        LET context == chat.conversation_context
            history == IF chat.conversation_history = None THEN <<>>
                       ELSE chat.conversation_history[1]
            skipped == Len(history) - Len(context)
        IN  /\ Len(context) = Min(recent_window, Len(history))
            /\ \A i \in 1..Len(context) :
                   /\ context[i].content = history[skipped + i].content
                   /\ context[i].role = "Human" <=> history[skipped + i].role = "user"
                   /\ context[i].role \in {"Human", "Assistant"}

\* a history longer than the window, ending with a message that is neither
\* the user's nor the assistant's
C28_Witness ==
    /\ chat.pc = "context_built"
    /\ chat.conversation_history # None
    /\ Len(chat.conversation_history[1]) > recent_window
    /\ chat.conversation_history[1][Len(chat.conversation_history[1])].role = "system"
    /\ Len(chat.conversation_context) = recent_window
    /\ chat.conversation_context[recent_window].role = "Assistant"
    /\ chat.conversation_context[1].content = 2

\* the words of a text, without their punctuation
Letters(text) == [j \in 1..Len(text) |-> text[j].s]

\* one turn of the content chunker's loop in which the segment does not fit:
\* the chunk closed holds the accumulated text up to its last terminator and
\* the rest goes before the segment's text in the next chunk; without a
\* terminator the chunk closed holds all of it
ContentOverflowSplits ==
    (chunker.pc = "content_loop" /\ chunker'.pc = "content_loop"
        /\ chunker'.i = chunker.i + 1)
    => LET segment == chunker.segments[chunker.i + 1]
           accumulated == chunker.state.current_chunk.text
           overflow == /\ accumulated # <<>>
                       /\ chunker.state.current_chunk.word_count + Len(segment.text)
                              > chunker.limit
           closed == chunker'.state.chunks[Len(chunker'.state.chunks)]
           next == chunker'.state.current_chunk
           terminated == {k \in 1..Len(accumulated) : accumulated[k].p # ""}
       IN  overflow =>
               /\ chunker'.state.chunks = Append(chunker.state.chunks, closed)
               /\ IF terminated # {}
                  THEN \E k \in terminated :
                           /\ \A j \in terminated : j <= k
                           /\ Letters(closed.text) = Letters(SubSeq(accumulated, 1, k))
                           /\ closed.text[k].p # ""
                           /\ next.text = SubSeq(accumulated, k + 1, Len(accumulated))
                                              \o segment.text
                  ELSE /\ closed.text = accumulated
                       /\ next.text = segment.text

\* C30: on overflow in content-bounded chunking, accumulated text with a
\* sentence terminator is cut after its last terminator, the closed chunk
\* keeping the sentences and the next chunk starting with the leftover
\* fragment followed by the triggering segment's text; accumulated text
\* without a terminator stays whole in the closed chunk and the next chunk
\* is the triggering segment's text alone.
C30_OverflowSplit == [][ContentOverflowSplits]_vars

\* a chunk was closed after "Yes." and the next one starts with the
\* leftover "and so on" followed by the segment that did not fit
C30_Witness ==
    /\ chunker.pc = "content_loop"
    /\ chunker.i = 2
    /\ chunker.state.chunks = <<[text |-> <<WordP("Yes", ".")>>,
                                 start |-> Some(0),
                                 end |-> Some(chunker.segments[1].end)]>>
    /\ chunker.segments[2].text # <<>>
    /\ chunker.state.current_chunk.text
           = <<Word("and"), Word("so"), Word("on")>> \o chunker.segments[2].text

\* the collection holds an entry for the chunk, with its id, text and
\* metadata
Holds(items, chunk) ==
    \E x \in items :
        /\ x.id = chunk.id
        /\ x.document = chunk.text
        /\ x.metadata.start_time = chunk.start_time
        /\ x.metadata.end_time = chunk.end_time
        /\ x.metadata.chunk_index = chunk.chunk_index
        /\ x.metadata.word_count = chunk.word_count
        /\ x.metadata.formatted_timestamp = format_timestamp(chunk.start_time)

\* a turn of the batch loop that succeeds adds the next batch_size chunks
\* (fewer at the end) after all the chunks before them, and nothing else
BatchAddsNext ==
    \A t \in Tasks :
        (task[t].pc = "ce_batch" /\ task'[t].pc \in {"ce_batch", "pe_complete"})
        => LET chunks == task[t].chunks
               i == task[t].i
               last == Min(i + batch_size, Len(chunks))
               before == collections[task[t].vid].items
               after == collections'[task[t].vid].items
           IN  /\ i % batch_size = 0 /\ i < Len(chunks)
               /\ Cardinality(before) = i
               /\ \A j \in 1..i : Holds(before, chunks[j])
               /\ before \subseteq after
               /\ Cardinality(after \ before) = last - i
               /\ \A j \in (i + 1)..last : Holds(after \ before, chunks[j])
               /\ task'[t].i = i + batch_size
               /\ task'[t].pc = "pe_complete" <=> last = Len(chunks)

\* when create_embeddings has returned True the collection holds one entry
\* per chunk
AllChunksIndexed ==
    \A t \in Tasks :
        (task[t].pc = "pe_complete" /\ task[t].chunks # <<>>)
        => LET items == collections[task[t].vid].items
           IN  /\ Cardinality(items) = Len(task[t].chunks)
               /\ \A j \in 1..Len(task[t].chunks) : Holds(items, task[t].chunks[j])

\* C31: create_embeddings takes the chunks in consecutive batches of at most
\* 50, in chunk order, and when it succeeds every chunk has been added to
\* the collection exactly once with its id, text and metadata.
C31_BatchesInOrder == []AllChunksIndexed /\ [][BatchAddsNext]_vars

\* a lecture of more than two full batches has been indexed
C31_Witness ==
    \E t \in Tasks :
        /\ task[t].pc = "pe_complete"
        /\ Len(task[t].chunks) > 2 * batch_size
        /\ Cardinality(collections[task[t].vid].items) = Len(task[t].chunks)

\* the chunk rows stored for a video
StoredChunks(v) == {r \in transcript_chunks : r.video_id = v}

\* C32: whenever a video's stored status is COMPLETED it has at least one
\* stored chunk, and its collection holds a vector for every stored chunk.
C32_CompletedIsIndexed ==
    \A v \in Videos :
        videos[v].processing_status = COMPLETED
        => /\ StoredChunks(v) # {}
           /\ collections[v].exists
           /\ \A r \in StoredChunks(v) : \E x \in collections[v].items : x.id = r.id

\* a video is COMPLETED with a run behind it
C32_Witness ==
    \E v \in Videos :
        /\ videos[v].processing_status = COMPLETED
        /\ StoredChunks(v) # {}
        /\ \A t \in Tasks : task[t].pc = "idle"
        /\ nruns > 0

\* C33: in every reachable state a video's stored error message is non-null
\* if and only if its stored status is FAILED.
C33_ErrorIffFailed ==
    \A v \in Videos :
        videos[v] # NoRow
        => (videos[v].processing_error # None
                <=> videos[v].processing_status = FAILED)

\* a run has written a later status over a FAILED one
C33_Witness ==
    \E v \in Videos, t \in Tasks :
        /\ task[t].vid = v
        /\ task[t].status0 = FAILED
        /\ task[t].writes # <<>>
        /\ videos[v].processing_status # FAILED
        /\ videos[v].processing_error = None

\* C34: after process_video has returned success the total_chunks stored on
\* the video record is the number of chunks get_transcript_chunks returns for
\* the video, on the first run and on every later run.
C34_TotalChunksIsRowCount ==
    \A t \in Tasks :
        task[t].pc = "pl_success"
        => \A order \in TieOrders :
               videos[task[t].vid].total_chunks =
                   Some(Len(get_transcript_chunks(transcript_chunks, task[t].vid, order)))

\* the texts of a list of segments or chunks, one after the other
RECURSIVE AllText(_)
AllText(parts) ==
    IF parts = <<>> THEN <<>> ELSE Head(parts).text \o AllText(Tail(parts))

\* C37: no strategy loses or duplicates transcript content: the words of the
\* chunks read in chunk order are the words of the segments read in segment
\* order, each once (whitespace and sentence terminators aside).
C37_WordsPreserved ==
    chunker.pc \in {"done", "created"}
    => Letters(AllText(chunker.result)) = Letters(AllText(chunker.segments))

\* the content strategy has split a lecture at a sentence boundary and
\* carried the unfinished sentence over
C37_Witness ==
    /\ chunker.pc = "created"
    /\ chunker.strategy = "content"
    /\ Len(chunker.result) > 1
    /\ \E j \in 1..Len(chunker.result) - 1 :
           LET text == chunker.result[j].text
           IN  text[Len(text)].p # ""
    /\ \E j \in 1..Len(chunker.segments) :
           LastTerminator(chunker.segments[j].text)
               \in 1..(Len(chunker.segments[j].text) - 1)

\* the segments are timed forwards, in order and without overlap
SegmentsOrdered(segments) ==
    /\ \A j \in 1..Len(segments) : segments[j].start <= segments[j].end
    /\ \A j \in 1..(Len(segments) - 1) : segments[j].end <= segments[j + 1].start

\* the raw chunks of a chunker have times, run forwards and do not overlap
RawChunksOrdered(chunks) ==
    /\ \A j \in 1..Len(chunks) :
           /\ chunks[j].start # None /\ chunks[j].end # None
           /\ chunks[j].start[1] <= chunks[j].end[1]
    /\ \A j \in 1..(Len(chunks) - 1) : chunks[j].end[1] <= chunks[j + 1].start[1]

\* C38: for segments that are ordered and do not overlap, every chunk emitted
\* by any strategy has times with end_time >= start_time, and chunk k ends
\* no later than chunk k+1 starts.
C38_ChunksOrdered ==
    /\ (chunker.pc = "done" /\ SegmentsOrdered(chunker.segments))
       => RawChunksOrdered(chunker.result)
    /\ (chunker.pc = "created" /\ SegmentsOrdered(chunker.segments))
       => /\ RawChunksOrdered(raw_chunks_of(chunker.strategy, chunker.segments))
          /\ \A j \in 1..Len(chunker.result) :
                 chunker.result[j].start_time <= chunker.result[j].end_time
          /\ \A j \in 1..(Len(chunker.result) - 1) :
                 chunker.result[j].end_time <= chunker.result[j + 1].start_time

\* every strategy has emitted several chunks for one lecture
C38_Witness ==
    /\ chunker.pc = "created"
    /\ Len(chunker.segments) = MaxSegments
    /\ \A strategy \in Strategies :
           Len(raw_chunks_of(strategy, chunker.segments)) > 1
    /\ Len(chunker.result) > 1

(* ------------------------- record-store faults ------------------------ *)

\* DatabaseService.update_processing_status when the UPDATE raises:
\*     except Exception as e: print(...); return False
\* the row stays as it was
update_processing_status_raises(rows, video_id, status, error) == rows

\* the steps that are one call of update_processing_status and nothing else
StatusSteps ==
    {"pv_processing", "pv_transcribing", "pv_chunking", "pv_embedding",
     "pe_embedding", "pe_failed", "pe_complete"}

\* such a step when the record store fails: no caller looks at the False
\* that update_processing_status returns, so the run goes on as after a
\* write
StoreWriteFails(t) ==
    /\ task[t].pc \in StatusSteps
    /\ LET tk == task[t]
           by == IF tk.pc \in {"pe_embedding", "pe_failed", "pe_complete"}
                 THEN "process_video_embeddings" ELSE "process_video"
           status == CASE tk.pc = "pv_processing" -> PROCESSING
                       [] tk.pc = "pv_transcribing" -> TRANSCRIBING
                       [] tk.pc = "pv_chunking" -> CHUNKING
                       [] tk.pc \in {"pv_embedding", "pe_embedding"} -> EMBEDDING
                       [] tk.pc = "pe_failed" -> FAILED
                       [] tk.pc = "pe_complete" -> COMPLETED
           error == IF tk.pc = "pe_failed"
                    THEN Some("Embedding creation failed") ELSE None
           after == CASE tk.pc = "pv_processing" -> [tk EXCEPT !.pc = "pv_extract_audio"]
                      [] tk.pc = "pv_transcribing" ->
                             [tk EXCEPT !.pc = "pv_transcribe_audio"]
                      [] tk.pc = "pv_chunking" -> [tk EXCEPT !.pc = "pv_create_chunks"]
                      [] tk.pc = "pv_embedding" ->
                             [tk EXCEPT !.pc = "pl_success", !.success = "True"]
                      [] tk.pc = "pe_embedding" ->
                             LogCall([tk EXCEPT !.pc = "pe_get_chunks"],
                                     "process_video_embeddings", 0, TRUE)
                      [] tk.pc = "pe_failed" ->
                             [tk EXCEPT !.pc = "done", !.indexed = "False"]
                      [] tk.pc = "pe_complete" ->
                             [tk EXCEPT !.pc = "done", !.indexed = "True"]
       IN  /\ videos' = update_processing_status_raises(videos, tk.vid, status, error)
           /\ task' = [task EXCEPT ![t] = Wrote(after, by, status, error)]
    /\ UNCHANGED <<video_metadata, transcript_chunks, collections, nruns>>
    /\ UNCHANGED <<chat, chunker>>

StoreFaultsNext ==
    \/ Next
    \/ \E t \in Tasks : StoreWriteFails(t)

SpecStoreFaults == Init /\ [][StoreFaultsNext]_vars

\* C35: every started run of process_video_pipeline terminates, and when it
\* has terminated the video's stored status is COMPLETED or FAILED, also
\* when a write to the record store fails.
C35_RunEndsSettled ==
    \A t \in Tasks :
        (task[t].pc = "done" /\ task[t].kind = "pipeline")
        => videos[task[t].vid].processing_status \in {COMPLETED, FAILED}

(* ----------------------------- two videos ------------------------------ *)

\* two uploads: each gets its own str(uuid.uuid4())
Library == {"v1", "v2"}

\* the shape of the ids: hexadecimal digits in groups joined by '-'
HexDigits == {"a", "b"}
VideoIds == {<<x, y, "-", z>> : x \in HexDigits, y \in HexDigits, z \in HexDigits}

\* f"video_{video_id.replace('-', '_')}"
collection_name(video_id) ==
    <<"video_">> \o [j \in 1..Len(video_id) |->
                        IF video_id[j] = "-" THEN "_" ELSE video_id[j]]

LibraryInit ==
    /\ videos = [v \in Library |-> NoRow]
    /\ video_metadata = [v \in Library |-> NewVideoMetadata]
    /\ transcript_chunks = {}
    /\ collections = [v \in Library |-> NoCollection]
    /\ task = [t \in Overlapping |-> IdleTask]
    /\ nruns = 0
    /\ chat = IdleChat
    /\ chunker = IdleChunker

\* upload_video while the run of another upload may be in progress
upload_video_overlapping(t, v) ==
    /\ task[t].pc = "idle"
    /\ videos[v] = NoRow
    /\ video_metadata' = [video_metadata EXCEPT ![v] = NewVideoMetadata]
    /\ videos' = save_video_metadata(videos, v, NewVideoMetadata)
    /\ task' = [task EXCEPT ![t] =
                   [NewTask("pipeline", "pv_processing", v) EXCEPT !.status0 = UPLOADING]]
    /\ nruns' = nruns + 1
    /\ UNCHANGED <<transcript_chunks, collections>>
    /\ UNCHANGED <<chat, chunker>>

\* process_video_embeddings invoked on its own for an uploaded video, once,
\* while other runs may be in progress
process_video_embeddings_overlapping(t, v) ==
    /\ nruns < Cardinality(Library) + 1
    /\ task[t].pc = "idle"
    /\ videos[v] # NoRow
    /\ \A u \in Overlapping : task[u].kind # "index"
    /\ task' = [task EXCEPT ![t] = NewTask("index", "pe_embedding", v)]
    /\ nruns' = nruns + 1
    /\ UNCHANGED <<videos, video_metadata, transcript_chunks, collections>>
    /\ UNCHANGED <<chat, chunker>>

LibraryNext ==
    \E t \in Overlapping :
        \/ \E v \in Library : upload_video_overlapping(t, v)
        \/ \E v \in Library : process_video_embeddings_overlapping(t, v)
        \/ PV_Processing(t)
        \/ PV_ExtractAudio(t)
        \/ PV_SaveAudioPath(t)
        \/ PV_Transcribing(t)
        \/ PV_TranscribeBrief(t)
        \/ PV_SaveTranscript(t)
        \/ PV_Chunking(t)
        \/ PV_CreateChunks(t)
        \/ PV_SaveChunks(t)
        \/ PV_SaveTotalChunks(t)
        \/ PV_Embedding(t)
        \/ Pipeline_CallEmbeddings(t)
        \/ PE_Embedding(t)
        \/ PE_GetChunks(t)
        \/ CE_Collection(t)
        \/ CE_Batch(t)
        \/ PE_Failed(t)
        \/ PE_Completed(t)
        \/ TaskReturns(t)

SpecLibrary == LibraryInit /\ [][LibraryNext]_vars

\* what the program keeps for a video: its row, its in-memory record, its
\* chunk rows and its collection
KeptFor(v) ==
    <<videos[v], video_metadata[v], {r \in transcript_chunks : r.video_id = v},
      collections[v]>>

\* a step of a run for video a leaves everything kept for any other video
\* as it was
RunsIsolated ==
    \A t \in Overlapping :
        task'[t] # task[t]
        => LET a == IF task[t].pc = "idle" THEN task'[t].vid ELSE task[t].vid
           IN  \A b \in Library \ {a} : KeptFor(b)' = KeptFor(b)

\* different ids give different collection names
CollectionNamesDistinct ==
    \A x \in VideoIds : \A y \in VideoIds :
        collection_name(x) = collection_name(y) => x = y

\* C36: runs for different videos are isolated: under any interleaving a
\* pipeline or embedding run for video A never changes the stored status,
\* error, record, chunks or vector collection of another video B.
C36_RunsIsolated == []CollectionNamesDistinct /\ [][RunsIsolated]_vars

\* the runs of two videos are in progress together, each with chunks stored
\* and its collection being filled
C36_Witness ==
    \E t, u \in Overlapping :
        /\ task[t].vid = "v1" /\ task[u].vid = "v2"
        /\ task[t].pc = "ce_batch" /\ task[u].pc = "ce_batch"
        /\ \A v \in Library : {r \in transcript_chunks : r.video_id = v} # {}
        /\ \A v \in Library : collections[v].exists

(* ----------------------- queries during indexing ---------------------- *)

\* the n entries of a collection with the lowest (or highest) chunk_index
RECURSIVE Extreme(_, _, _)
Extreme(items, n, lowest) ==
    IF n = 0 \/ items = {} THEN {}
    ELSE LET x == CHOOSE y \in items : \A z \in items :
                      IF lowest
                      THEN y.metadata.chunk_index <= z.metadata.chunk_index
                      ELSE y.metadata.chunk_index >= z.metadata.chunk_index
         IN  {x} \cup Extreme(items \ {x}, n - 1, lowest)

\* answers of collection.query(query_embeddings, n_results) for a query
\* nearest to the start or to the end of the lecture: the n_results nearest
\* entries the collection holds at that moment, all at one distance
NearestResults(collection, n_results) ==
    {[hits |-> ByChunkIndex(Extreme(collection.items, n_results, lowest)),
      distances |-> [i \in 1..Min(n_results, Cardinality(collection.items)) |-> d]] :
         lowest \in BOOLEAN, d \in Distances}

\* retrieve_relevant_chunks(video_id, query, top_k) is called; nothing in it
\* looks at the video's status or at the runs in progress
retrieve_called(v) ==
    /\ chat.pc = "idle"
    /\ videos[v] # NoRow
    /\ chat' = [chat EXCEPT !.pc = "rr_retrieve",
                            !.endpoint = "retrieve_relevant_chunks",
                            !.request = Some([video_id |-> v, question |-> "query"])]
    /\ UNCHANGED <<pipeline_vars, chunker>>

\* a retrieval that lets its exceptions out
RR_Retrieve_Raises ==
    /\ chat.pc = "rr_retrieve"
    /\ LET v == chat.request[1].video_id
       IN  \E fault \in RetrieveFaults :
           \E results \in NearestResults(collections[v], top_k) :
               LET got == retrieve_relevant_chunks_raises(collections[v], fault, results)
               IN  chat' = [chat EXCEPT !.pc = "rr_done",
                                        !.calls = got.calls,
                                        !.raised = got.raised,
                                        !.relevant_chunks = got.relevant_chunks]
    /\ UNCHANGED <<pipeline_vars, chunker>>

\* the body of retrieve_relevant_chunks, on the collection as it is when
\* the query reaches the index
RR_Retrieve ==
    /\ chat.pc = "rr_retrieve"
    /\ LET v == chat.request[1].video_id
       IN  \E fault \in RetrieveFaults :
           \E results \in NearestResults(collections[v], top_k) :
               LET got == retrieve_relevant_chunks(collections[v], fault, results)
               IN  chat' = [chat EXCEPT !.pc = "rr_done",
                                        !.calls = got.calls,
                                        !.raised = got.raised,
                                        !.relevant_chunks = got.relevant_chunks]
    /\ UNCHANGED <<pipeline_vars, chunker>>

\* retrieve_relevant_chunks has returned
RR_Returns ==
    /\ chat.pc = "rr_done"
    /\ chat' = [IdleChat EXCEPT !.gemini_model = chat.gemini_model]
    /\ UNCHANGED <<pipeline_vars, chunker>>

\* process_video_embeddings invoked once more for the video, after the run
\* of its upload
process_video_embeddings_again(t, v) ==
    /\ CanStart(t)
    /\ nruns = 1
    /\ videos[v] # NoRow
    /\ task' = [task EXCEPT ![t] = NewTask("index", "pe_embedding", v)]
    /\ nruns' = nruns + 1
    /\ UNCHANGED <<videos, video_metadata, transcript_chunks, collections>>
    /\ UNCHANGED <<chat, chunker>>

\* the run of an upload and one more embedding run, with queries at any
\* moment
QueryNext ==
    \/ \E t \in Tasks :
           \/ \E v \in Videos : upload_video(t, v)
           \/ \E v \in Videos : process_video_embeddings_again(t, v)
           \/ PV_Processing(t)
           \/ PV_ExtractAudio(t)
           \/ PV_SaveAudioPath(t)
           \/ PV_Transcribing(t)
           \/ PV_TranscribeAudio(t)
           \/ PV_SaveTranscript(t)
           \/ PV_Chunking(t)
           \/ PV_CreateChunks(t)
           \/ PV_SaveChunks(t)
           \/ PV_SaveTotalChunks(t)
           \/ PV_Embedding(t)
           \/ Pipeline_CallEmbeddings(t)
           \/ PE_Embedding(t)
           \/ PE_GetChunks(t)
           \/ CE_Collection(t)
           \/ CE_Batch(t)
           \/ PE_Failed(t)
           \/ PE_Completed(t)
           \/ TaskReturns(t)
    \/ \E v \in Videos : retrieve_called(v)
    \/ RR_Retrieve
    \/ RR_Returns

SpecQuery == Init /\ [][QueryNext]_vars

\* an embedding run is between the start of its rebuild and its last batch
Rebuilding(t) == task[t].pc \in {"ce_collection", "ce_batch"}

\* the collection of the run's video lacks some of the run's chunks
Incomplete(t) ==
    \E c \in Range(task[t].chunks) :
        \A x \in collections[task[t].vid].items : x.id # c.id

\* a query can be made while an embedding run is rebuilding the collection,
\* and a query that has returned did not raise
QueryAnyTime ==
    /\ \A v \in Videos :
           (chat.pc = "idle" /\ videos[v] # NoRow /\ \E t \in Tasks : Rebuilding(t))
           => ENABLED retrieve_called(v)
    /\ chat.pc = "rr_done" => ~chat.raised

\* a query returns chunks the collection holds at that moment, at most top_k
\* of them, and none when the collection is missing
QuerySeesCollection ==
    (chat.pc = "rr_retrieve" /\ chat'.pc = "rr_done")
    => LET collection == collections[chat.request[1].video_id]
       IN  /\ Len(chat'.relevant_chunks) <= Min(top_k, Cardinality(collection.items))
           /\ \A i \in 1..Len(chat'.relevant_chunks) :
                  \E x \in collection.items : x.id = chat'.relevant_chunks[i].chunk_id
           /\ ~collection.exists => chat'.relevant_chunks = <<>>

\* C39: the collection rebuild is not atomic: a query that runs concurrently
\* with an embedding run for the same video can find the collection missing
\* or only partly populated, and then returns fewer or no chunks and does
\* not raise.
C39_QueryDuringRebuild == []QueryAnyTime /\ [][QuerySeesCollection]_vars

\* a query has returned chunks while the run had added some batches and not
\* others
C39_Witness ==
    \E t \in Tasks :
        /\ task[t].pc = "ce_batch"
        /\ task[t].i > 0
        /\ Incomplete(t)
        /\ chat.pc = "rr_done"
        /\ chat.request[1].video_id = task[t].vid
        /\ chat.relevant_chunks # <<>>
        /\ ~chat.raised

====
